---- MODULE Spec2Model ----
(***************************************************************************)
(* Model of the AESOP-Lite event-PSOC firmware (src/DAQ.cydsn/main.c):     *)
(* the GO interrupt, the TOF interrupts, the main loop (event assembly,    *)
(* output, command time-out, command parsing and dispatch, housekeeping),  *)
(* the tracker packet receiver and the error log.                          *)
(*                                                                         *)
(* Every C function is an operator from a machine state (a record with one *)
(* field per program variable) to a machine state; an action applies such  *)
(* an operator to the current state St and commits the result.             *)
(***************************************************************************)
EXTENDS Integers, Sequences, FiniteSets, TLC

(***************************************************************************)
(* Program constants                                                       *)
(***************************************************************************)
MXERR == 64
MAX_CMD_DATA == 16
TOFMAX_EVT == 64
MAX_TKR_BOARDS == 8
MAX_TKR_BOARD_BYTES == 203
MAX_DATA_OUT == 256
TKRHOUSE_LEN == 70
CMD_LENGTH == 29
MX_CMDS == 32
TIMEOUT == 200
TKR_READ_TIMEOUT == 31
VERSION == 1
THRDEF == 5
I2C_Address_DAC_Ch5 == 14
USBUART_OUTPUT == 1
SPI_OUTPUT == 0

ERR_DAC_LOAD == 1
ERR_CMD_IGNORE == 5
ERR_TKR_READ_TIMEOUT == 6
ERR_TKR_BAD_ID == 7
ERR_TKR_BAD_LENGTH == 8
ERR_TKR_BAD_ECHO == 9
ERR_GET_TKR_DATA == 10
ERR_TKR_BAD_FPGA == 11
ERR_TKR_BAD_TRAILER == 12
ERR_TKR_BAD_NDATA == 13
ERR_PMT_DAQ_TIMEOUT == 14
ERR_TKR_NUM_BOARDS == 15
ERR_TKR_BAD_BOARD_ID == 16
ERR_TKR_BOARD_SHORT == 17
ERR_TKR_NO_MEMORY == 18
ERR_TX_FAILED == 19
ERR_BAD_CMD == 20
ERR_EVT_TOO_BIG == 21
ERR_BAD_BYTE == 22
ERR_TKR_BAD_STATUS == 23
ERR_TKR_TRG_ENABLE == 24
ERR_TKR_TOO_BIG == 26
ERR_TKR_LYR_ORDER == 27
ERR_TRK_WRONG_DATA_TYPE == 28
ERR_CMD_BUF_OVERFLOW == 29

TKR_EVT_DATA == 211
TKR_HOUSE_DATA == 199
TKR_ECHO_DATA == 241

eventPSOCaddress == 8

(* Command codes of the dispatch switch *)
CMD_LOAD_DAC == 1
CMD_ERRORS == 3
CMD_TOF_DAC_READ == 5
CMD_TKR_PASS == 16
CMD_VERSION == 7
CMD_LOGIC_RESET == 56
CMD_TRIGGER == 59
CMD_START_RUN == 60
CMD_TRG_STATUS == 61
CMD_END_RUN == 68
CMD_TKR_READ_EVT == 67

(* ASCII *)
CH_S == 83
CH_W == 87
CH_SP == 32
CH_CR == 13
CH_LF == 10

(***************************************************************************)
(* Bounds of the model                                                     *)
(***************************************************************************)
MaxGO == 2
MaxFrames == 4
MaxCmdFrames == 2
MaxTicks == 1
MaxTofHits == 3
MaxTofTicks == 1

MaxTofGO == 1
MaxParseFrames == 5
MaxTimeoutFrames == 3
TickLen == 100

(***************************************************************************)
(* Fixed-width arithmetic                                                  *)
(***************************************************************************)
U8(x) == x % 256

U16(x) == x % 65536

(* 32-bit unsigned values (the clock, the GO counters) are held as naturals:
   the bounds of the model keep them far below 2^32, so no sum wraps.  A
   32-bit unsigned difference now - start wraps exactly when now < start,
   and is then larger than any limit the program compares it with. *)
ElapsedOver(now, start, limit) == now < start \/ now - start > limit

(* Low byte of the 32-bit unsigned difference now - start *)
ElapsedLow8(now, start) == (now - start) % 256

(* (uint8) of a two's-complement int: C's conversion of a negative value *)
AsU16(x) == ((x % 65536) + 65536) % 65536

abs(x) == IF x < 0 THEN -x ELSE x

byte32(word, byte) == (word \div (256 ^ (3 - byte))) % 256

byte16(word, byte) == (word \div (256 ^ (1 - byte))) % 256

VARIABLES
    Control_Reg_Trg,   \* trigger control register; bit 0 is the trigger enable
    triggered, trgStatus, timeStamp, cntGO, cntGO1, clkCnt, cnt200val,
    runNumber, readTracker, numTkrBrds, thrDACsettings,
    errors, nErrors,
    dataOut, nDataReady,
    eventDataReady, awaitingCommand, cmdDone, command, cmdData, nDataBytes,
    dCnt, cmdStartTime, outputMode,
    tkrData, tkrCmdCode, tkrCmdCount, nTkrHouseKeeping, tkrHouseKeeping,
    tkrHouseKeepingFPGA,
    heap,              \* the C heap: every buffer malloc ever returned
    tofA, tofB,
    pc,                \* position of the main loop in its for(;;) body
    usbOut,            \* packets handed to the output transport, in order
    tkrRx,             \* bytes waiting in the tracker UART receive FIFO
    tkrTx,             \* commands written to the tracker UART
    rxFrame,           \* the frame most recently read from the host
    dispatch,          \* outcome of the most recent command dispatch
    nDispatch,         \* number of command dispatches so far
    nFrames,           \* frames the host has sent so far
    nTicks,            \* clock advances so far
    nHits,             \* TOF stop events so far
    nGO,               \* GO signals so far
    cmdCountGLB,      \* count of all command packets received
    cmdCount,         \* count of all event PSOC commands received
    nCmdTimeOut,
    cmdWritePtr,
    cmdReadPtr,
    cmd_buffer,       \* frames received from the command UART
    supplied,         \* byte indices the frames of the command in progress have supplied
    i2cLog,           \* transactions on the I2C bus of the DACs, in order
    addErrorReg,      \* the main loop's call of addError in progress: its arguments and the nErrors it tested
    nLogged,          \* records stored in the error log so far
    nReported,        \* records sent to the host by the error read-out so far
    tkrCall,          \* the most recent call of getTrackerData
    nCalls,           \* calls of getTrackerData made directly so far
    nUart,            \* frames the command UART has received so far
    txFifoFull,       \* the FIFO-full bit of the tracker UART's transmit status
    waitStart,        \* the time at which the main loop entered the wait loop it is in
    intMasked,        \* interrupts are masked (CyEnterCriticalSection)
    savedStamp,       \* timeStampSave of the event section
    idxA,             \* idx[0..nI-1] of the TOF search
    corr,             \* what the TOF search found
    sinceClear,       \* TOF samples stored since the rings were last cleared
    getByte           \* the call of tkr_getByte in progress, or the last one made

vars == <<Control_Reg_Trg, triggered, trgStatus, timeStamp, cntGO, cntGO1,
          clkCnt, cnt200val, runNumber, readTracker, numTkrBrds,
          thrDACsettings, errors,
          nErrors, dataOut, nDataReady, eventDataReady, awaitingCommand,
          cmdDone, command, cmdData, nDataBytes, dCnt, cmdStartTime,
          outputMode, tkrData, tkrCmdCode, tkrCmdCount, nTkrHouseKeeping,
          tkrHouseKeeping, tkrHouseKeepingFPGA, heap, tofA, tofB, pc, usbOut,
          tkrRx, tkrTx, rxFrame, dispatch, nDispatch, nFrames, nTicks, nHits, nGO,
          cmdCountGLB, cmdCount, nCmdTimeOut, cmdWritePtr, cmdReadPtr, cmd_buffer, supplied,
          i2cLog, addErrorReg, nLogged, nReported, tkrCall, nCalls, nUart,
          txFifoFull,
          waitStart,
          intMasked,
          savedStamp,
          idxA,
          corr,
          sinceClear,
          getByte>>

(* The current machine state as a record.  The in_ fields are the inputs of
   the handler being executed: in_mfail, the malloc calls (counted by mcnt
   from 1 within the handler) that return NULL; in_txOk, whether the tracker
   UART drains its transmit buffer in time; in_ub, the value an out-of-bounds
   read yields; in_rxLate, the bytes the tracker sends after the receive
   buffer has been cleared; in_daqDone, whether the digitizers raise their
   done signal in time; in_adc, the samples DMA left in adc1_sampleArray and
   adc2_sampleArray; in_timeWord, the packed reading of the real-time clock;
   in_i2c, the I2C bus call that fails inside loadDAC and its status. *)
St ==
    [Control_Reg_Trg |-> Control_Reg_Trg, triggered |-> triggered,
     trgStatus |-> trgStatus, timeStamp |-> timeStamp, cntGO |-> cntGO,
     cntGO1 |-> cntGO1, clkCnt |-> clkCnt, cnt200val |-> cnt200val,
     runNumber |-> runNumber, readTracker |-> readTracker,
     numTkrBrds |-> numTkrBrds, thrDACsettings |-> thrDACsettings,
     errors |-> errors, nErrors |-> nErrors,
     dataOut |-> dataOut, nDataReady |-> nDataReady,
     eventDataReady |-> eventDataReady, awaitingCommand |-> awaitingCommand,
     cmdDone |-> cmdDone, command |-> command, cmdData |-> cmdData,
     nDataBytes |-> nDataBytes, dCnt |-> dCnt, cmdStartTime |-> cmdStartTime,
     outputMode |-> outputMode, tkrData |-> tkrData,
     tkrCmdCode |-> tkrCmdCode, tkrCmdCount |-> tkrCmdCount,
     nTkrHouseKeeping |-> nTkrHouseKeeping,
     tkrHouseKeeping |-> tkrHouseKeeping,
     tkrHouseKeepingFPGA |-> tkrHouseKeepingFPGA, heap |-> heap,
     tofA |-> tofA, tofB |-> tofB, pc |-> pc, usbOut |-> usbOut,
     tkrRx |-> tkrRx, tkrTx |-> tkrTx, rxFrame |-> rxFrame,
     dispatch |-> dispatch,
     nDispatch |-> nDispatch, nFrames |-> nFrames, nTicks |-> nTicks,
     nHits |-> nHits, nGO |-> nGO,
     cmdCountGLB |-> cmdCountGLB,
     cmdCount |-> cmdCount,
     nCmdTimeOut |-> nCmdTimeOut,
     cmdWritePtr |-> cmdWritePtr,
     cmdReadPtr |-> cmdReadPtr,
     cmd_buffer |-> cmd_buffer,
     supplied |-> supplied,
     i2cLog |-> i2cLog,
     addErrorReg |-> addErrorReg,
     nLogged |-> nLogged,
     nReported |-> nReported,
     tkrCall |-> tkrCall,
     nCalls |-> nCalls,
     nUart |-> nUart,
     txFifoFull |-> txFifoFull,
     waitStart |-> waitStart,
     intMasked |-> intMasked,
     savedStamp |-> savedStamp,
     idxA |-> idxA,
     corr |-> corr,
     sinceClear |-> sinceClear,
     getByte |-> getByte,
     in_mfail |-> {}, mcnt |-> 0, in_txOk |-> TRUE,
     in_ub |-> 0, in_rxLate |-> <<>>, in_daqDone |-> TRUE,
     in_adc |-> <<0, 0, 0, 0, 0, 0>>, in_timeWord |-> 0, in_i2c |-> [failAt |-> 0, rc |-> 0]]

Commit(r) ==
    /\ Control_Reg_Trg' = r.Control_Reg_Trg
    /\ triggered' = r.triggered
    /\ trgStatus' = r.trgStatus
    /\ timeStamp' = r.timeStamp
    /\ cntGO' = r.cntGO
    /\ cntGO1' = r.cntGO1
    /\ clkCnt' = r.clkCnt
    /\ cnt200val' = r.cnt200val
    /\ runNumber' = r.runNumber
    /\ readTracker' = r.readTracker
    /\ numTkrBrds' = r.numTkrBrds
    /\ thrDACsettings' = r.thrDACsettings
    /\ errors' = r.errors
    /\ nErrors' = r.nErrors
    /\ dataOut' = r.dataOut
    /\ nDataReady' = r.nDataReady
    /\ eventDataReady' = r.eventDataReady
    /\ awaitingCommand' = r.awaitingCommand
    /\ cmdDone' = r.cmdDone
    /\ command' = r.command
    /\ cmdData' = r.cmdData
    /\ nDataBytes' = r.nDataBytes
    /\ dCnt' = r.dCnt
    /\ cmdStartTime' = r.cmdStartTime
    /\ outputMode' = r.outputMode
    /\ tkrData' = r.tkrData
    /\ tkrCmdCode' = r.tkrCmdCode
    /\ tkrCmdCount' = r.tkrCmdCount
    /\ nTkrHouseKeeping' = r.nTkrHouseKeeping
    /\ tkrHouseKeeping' = r.tkrHouseKeeping
    /\ tkrHouseKeepingFPGA' = r.tkrHouseKeepingFPGA
    /\ heap' = r.heap
    /\ tofA' = r.tofA
    /\ tofB' = r.tofB
    /\ pc' = r.pc
    /\ usbOut' = r.usbOut
    /\ tkrRx' = r.tkrRx
    /\ tkrTx' = r.tkrTx
    /\ rxFrame' = r.rxFrame
    /\ dispatch' = r.dispatch
    /\ nDispatch' = r.nDispatch
    /\ nFrames' = r.nFrames
    /\ nTicks' = r.nTicks
    /\ nHits' = r.nHits
    /\ nGO' = r.nGO
    /\ cmdCountGLB' = r.cmdCountGLB
    /\ cmdCount' = r.cmdCount
    /\ nCmdTimeOut' = r.nCmdTimeOut
    /\ cmdWritePtr' = r.cmdWritePtr
    /\ cmdReadPtr' = r.cmdReadPtr
    /\ cmd_buffer' = r.cmd_buffer
    /\ supplied' = r.supplied
    /\ i2cLog' = r.i2cLog
    /\ addErrorReg' = r.addErrorReg
    /\ nLogged' = r.nLogged
    /\ nReported' = r.nReported
    /\ tkrCall' = r.tkrCall
    /\ nCalls' = r.nCalls
    /\ nUart' = r.nUart
    /\ txFifoFull' = r.txFifoFull
    /\ waitStart' = r.waitStart
    /\ intMasked' = r.intMasked
    /\ savedStamp' = r.savedStamp
    /\ idxA' = r.idxA
    /\ corr' = r.corr
    /\ sinceClear' = r.sinceClear
    /\ getByte' = r.getByte

(***************************************************************************)
(* Leaves: clock, error log, trigger register, heap                        *)
(***************************************************************************)
time(s) == s.clkCnt + s.cnt200val

addError(s, code, val1, val2) ==
    IF s.nErrors < MXERR
    THEN [s EXCEPT !.errors[s.nErrors] =
                       [errorCode |-> code, value0 |-> val1, value1 |-> val2],
                   !.nErrors = s.nErrors + 1,
                   !.nLogged = s.nLogged + 1]
    ELSE s

(* The error count of a machine state never exceeds MXERR.  A loop that is
   computed in two halves tests this on the state its first half has produced,
   so that the first half is computed before the second begins; a stage of
   the event assembly tests it on the state the stage before has produced. *)
Computed(s) == s.nErrors <= MXERR

isTriggerEnabled(s) == s.Control_Reg_Trg % 2 = 1

triggerEnable(s, enable) ==
    LET regValue == s.Control_Reg_Trg - (s.Control_Reg_Trg % 2)
    IN  [s EXCEPT !.Control_Reg_Trg = IF enable THEN regValue + 1 ELSE regValue]

NULL == 0

(* malloc(n): a fresh buffer of n indeterminate bytes (-1), or NULL when the
   allocation fails.  Returns the state with field ret set to the pointer. *)
malloc(s, n) ==
    LET k == s.mcnt + 1
    IN  IF k \in s.in_mfail
        THEN [state |-> [s EXCEPT !.mcnt = k], ptr |-> NULL]
        ELSE [state |-> [s EXCEPT !.mcnt = k,
                                  !.heap = Append(s.heap,
                                      [frees |-> 0, bytes |-> [i \in 0..(n-1) |-> -1]])],
              ptr |-> Len(s.heap) + 1]

(* free(p): free(NULL) does nothing; the count of frees of a buffer is kept,
   so that a second free of the same buffer is visible. *)
free(s, p) ==
    IF p = NULL THEN s ELSE [s EXCEPT !.heap[p].frees = @ + 1]

(* The hardware clock moves on by d ticks of 5 ms: the 8-bit counter counts
   to 200 and the clk200 interrupt then adds 200 to clkCnt. *)
AdvanceTime(s, d) ==
    LET total == s.cnt200val + d
    IN  [s EXCEPT !.cnt200val = total % 200,
                  !.clkCnt = s.clkCnt + 200 * (total \div 200)]

(***************************************************************************)
(* Interrupt handlers                                                      *)
(***************************************************************************)
isrGO1(s, status) ==
    LET a == IF isTriggerEnabled(s)
             THEN [triggerEnable(s, FALSE) EXCEPT
                       !.trgStatus = status,
                       !.cntGO = s.cntGO + 1,
                       !.triggered = TRUE,
                       !.timeStamp = time(s)]
             ELSE s
    IN  [a EXCEPT !.cntGO1 = s.cntGO1 + 1]

(* A store whose cursor does not wrap *)
StoreTof_NoWrap(tof, AT, clk) ==
    [shiftReg |-> [tof.shiftReg EXCEPT ![tof.ptr] = AT],
     clkCnt |-> [tof.clkCnt EXCEPT ![tof.ptr] = U16(clk)],
     filled |-> [tof.filled EXCEPT ![tof.ptr] = TRUE],
     ptr |-> tof.ptr + 1]

StoreTof(tof, AT, clk) ==
    [shiftReg |-> [tof.shiftReg EXCEPT ![tof.ptr] = AT],
     clkCnt |-> [tof.clkCnt EXCEPT ![tof.ptr] = U16(clk)],
     filled |-> [tof.filled EXCEPT ![tof.ptr] = TRUE],
     ptr |-> IF tof.ptr + 1 >= TOFMAX_EVT THEN 0 ELSE tof.ptr + 1]

Store_A(s, AT) == [s EXCEPT !.tofA = StoreTof(s.tofA, AT, time(s))]

Store_B(s, BT) == [s EXCEPT !.tofB = StoreTof(s.tofB, BT, time(s))]

(* A clearing that leaves the cursor where it is *)
ClearTof_KeepCursor(tof) ==
    [tof EXCEPT !.filled = [i \in 0..(TOFMAX_EVT - 1) |-> FALSE]]

ClearTof(tof) ==
    [tof EXCEPT !.filled = [i \in 0..(TOFMAX_EVT - 1) |-> FALSE], !.ptr = 0]

(***************************************************************************)
(* logicReset                                                              *)
(***************************************************************************)
RECURSIVE FreeBoards(_, _)
FreeBoards(s, brd) ==
    IF brd >= MAX_TKR_BOARDS THEN s
    ELSE IF s.tkrData.boardHits[brd].nBytes > 0
         THEN FreeBoards(
                  free([s EXCEPT !.tkrData.boardHits[brd].nBytes = 0],
                       s.tkrData.boardHits[brd].hitList),
                  brd + 1)
         ELSE FreeBoards(s, brd + 1)

logicReset(s) ==
    FreeBoards([s EXCEPT !.clkCnt = 0, !.cntGO = 0, !.cntGO1 = 0], 0)

(***************************************************************************)
(* Tracker link: receive                                                   *)
(***************************************************************************)
(* if (cond) addError(code, val1, val2); *)
addErrorIf(s, cond, code, val1, val2) ==
    IF cond THEN addError(s, code, val1, val2) ELSE s

ReadExpired_At(now, start) == ElapsedOver(now, start, TKR_READ_TIMEOUT - 1)

(* "timeElapsed > TKR_READ_TIMEOUT" *)
ReadExpired(now, start) == ElapsedOver(now, start, TKR_READ_TIMEOUT)

(* tkr_getByte: the next byte of the receive FIFO; when none arrives, the
   call returns once more than TKR_READ_TIMEOUT ticks have passed since
   startTime, logging ERR_TKR_READ_TIMEOUT and returning 0. *)
tkr_getByte(s, startTime, flag) ==
    IF Len(s.tkrRx) > 0
    THEN [state |-> [s EXCEPT !.tkrRx = Tail(s.tkrRx)], val |-> Head(s.tkrRx)]
    ELSE LET w == IF ReadExpired(time(s), startTime) THEN s
                  ELSE AdvanceTime(s, TKR_READ_TIMEOUT + 1 - (time(s) - startTime))
         IN  [state |-> addError(w, ERR_TKR_READ_TIMEOUT,
                                 ElapsedLow8(time(w), startTime), flag),
              val |-> 0]

(* n consecutive calls tkr_getByte(startTime, flag), tkr_getByte(startTime,
   flag + 1), ...: r holds the state and the bytes read so far *)
AppendByte(r, g) == [state |-> g.state, vals |-> Append(r.vals, g.val)]

RECURSIVE tkr_getBytes(_, _, _, _)
tkr_getBytes(r, startTime, flag, n) ==
    IF n = 0 THEN r
    ELSE tkr_getBytes(AppendByte(r, tkr_getByte(r.state, startTime, flag)),
                      startTime, flag + 1, n - 1)

NoBytes(s) == [state |-> s, vals |-> <<>>]

(* The default hit list written wherever no board data can be had: 5 bytes
   E7, board, 0, tag, 30 in the buffer m that malloc(5) returned (nothing is
   written if malloc returned NULL). *)
StoreDefaultHitList(m, brd, tag) ==
    LET a == [m.state EXCEPT !.tkrData.boardHits[brd] =
                                 [nBytes |-> 5, hitList |-> m.ptr]]
    IN  IF m.ptr = NULL THEN a
        ELSE [a EXCEPT !.heap[m.ptr].bytes =
                  [i \in 0..4 |-> <<231, brd, 0, tag, 48>>[i + 1]]]

DefaultHitList(s, brd, tag) == StoreDefaultHitList(malloc(s, 5), brd, tag)

RECURSIVE DefaultBoards(_, _, _, _)
DefaultBoards(s, brd, n, tag) ==
    IF brd >= n THEN s
    ELSE DefaultBoards(DefaultHitList(s, brd, tag), brd + 1, n, tag)

(* "Send back a packet that won't cause a crash down the road" *)
DefaultTkrEvent(s, tag) ==
    DefaultBoards([s EXCEPT !.tkrData.triggerCount = 0,
                            !.tkrData.cmdCount = 0,
                            !.tkrData.trgPattern = 0,
                            !.tkrData.nTkrBoards = s.numTkrBrds],
                  0, s.numTkrBrds, tag)

StoreHitByte(g, ptr, i) ==
    IF i < MAX_TKR_BOARD_BYTES
    THEN [g.state EXCEPT !.heap[ptr].bytes[i] = g.val]
    ELSE g.state

(* for (i = 2; i < nBrdBytes; ++i), the first half of the passes first *)
RECURSIVE ReadHitBytes(_, _, _, _, _, _)
ReadHitBytes_Rest(read, startTime, ptr, i, n, flag) ==
    IF Computed(read) THEN ReadHitBytes(read, startTime, ptr, i, n, flag) ELSE read

ReadHitBytes(s, startTime, ptr, i, n, flag) ==
    IF i >= n THEN s
    ELSE IF n - i = 1
    THEN StoreHitByte(tkr_getByte(s, startTime, flag), ptr, i)
    ELSE ReadHitBytes_Rest(
             ReadHitBytes(s, startTime, ptr, i, i + (n - i) \div 2, flag),
             startTime, ptr, i + (n - i) \div 2, n, flag)

(* One pass of the per-board loop of an event-data packet, in the order of the
   code: the hit list is allocated (m is what malloc returned) and filled *)
ReadBoard_Store(m, startTime, brd, lyr, nBrdBytes, IDbyte, byte2, rc) ==
    LET s6 == [m.state EXCEPT !.tkrData.boardHits[lyr].hitList = m.ptr]
    IN  IF m.ptr = NULL
        THEN [state |-> addError(s6, ERR_TKR_NO_MEMORY, U8(nBrdBytes - 2), brd),
              rc |-> 60]
        ELSE [state |-> ReadHitBytes(
                            [s6 EXCEPT !.heap[m.ptr].bytes[0] = IDbyte,
                                       !.heap[m.ptr].bytes[1] = byte2],
                            startTime, m.ptr, 2, nBrdBytes, 10),
              rc |-> rc]

(* the byte count of the board is stored in slot lyr *)
ReadBoard_Size(s, startTime, brd, lyr, nBrdBytes, IDbyte, byte2, rc) ==
    ReadBoard_Store(
        malloc(IF nBrdBytes > MAX_TKR_BOARD_BYTES
               THEN addError([s EXCEPT !.tkrData.boardHits[lyr].nBytes =
                                           MAX_TKR_BOARD_BYTES],
                             ERR_TKR_TOO_BIG, nBrdBytes, lyr)
               ELSE [s EXCEPT !.tkrData.boardHits[lyr].nBytes = nBrdBytes],
               nBrdBytes),
        startTime, brd, lyr, nBrdBytes, IDbyte, byte2, rc)

(* the board address byte g3 has been read *)
ReadBoard_Layer(g3, startTime, brd, nBrdBytes, IDbyte, rc) ==
    ReadBoard_Size(
        addErrorIf(addErrorIf(g3.state, g3.val > 8, ERR_TKR_BAD_FPGA, g3.val, brd),
                   g3.val % 8 # brd, ERR_TKR_LYR_ORDER, g3.val % 8, brd),
        startTime, brd, g3.val % 8, nBrdBytes, IDbyte, g3.val,
        IF g3.val > 8 THEN 59 ELSE rc)

(* the identifier byte g2 has been read *)
ReadBoard_ID(g2, startTime, brd, nBrdBytes, rc) ==
    IF g2.val # 231
    THEN [state |-> DefaultHitList(
                        addError(g2.state, ERR_TKR_BAD_BOARD_ID, g2.val, brd),
                        brd, 5),
          rc |-> 58]
    ELSE ReadBoard_Layer(tkr_getByte(g2.state, startTime, 9), startTime, brd,
                         nBrdBytes, g2.val, rc)

(* the byte count g1 has been read *)
ReadBoard_Len(g1, startTime, brd, rc) ==
    IF g1.val < 4
    THEN [state |-> DefaultHitList(
                        addError(g1.state, ERR_TKR_BOARD_SHORT, g1.val, brd),
                        brd, 4),
          rc |-> 57]
    ELSE ReadBoard_ID(tkr_getByte(g1.state, startTime, 8), startTime, brd,
                      g1.val, rc)

ReadBoard(s, startTime, brd, rc) ==
    ReadBoard_Len(tkr_getByte(s, startTime, 7), startTime, brd, rc)

(* for (brd = 0; brd < nBoards; ++brd): r holds the state and rc *)
RECURSIVE ReadBoards(_, _, _, _)
ReadBoards(r, startTime, brd, nBoards) ==
    IF brd >= nBoards THEN r
    ELSE ReadBoards(ReadBoard(r.state, startTime, brd, r.rc),
                    startTime, brd + 1, nBoards)

StoreHouseByte(g, i) ==
    IF i < TKRHOUSE_LEN
    THEN [g.state EXCEPT !.tkrHouseKeeping[i] = g.val,
                         !.nTkrHouseKeeping = @ + 1]
    ELSE g.state

RECURSIVE ReadHouse(_, _, _, _)
ReadHouse(s, startTime, i, nData) ==
    IF i >= nData THEN s
    ELSE ReadHouse(StoreHouseByte(tkr_getByte(s, startTime, 16), i),
                   startTime, i + 1, nData)

StoreUnknownByte(g, i) == [g.state EXCEPT !.dataOut[i] = g.val]

RECURSIVE ReadUnknown(_, _, _, _)
ReadUnknown(s, startTime, i, n) ==
    IF i >= n THEN s
    ELSE ReadUnknown(StoreUnknownByte(tkr_getByte(s, startTime, U8(20 + i)), i),
                     startTime, i + 1, n)

(* Event data: g holds the four header bytes (trigger count, command count,
   pattern and number of boards) *)
Event_Boards(g, startTime) ==
    LET trgPattern == (g.vals[4] \div 64) * 64
        nBoards == g.vals[4] % 64
        a == [g.state EXCEPT !.tkrData.triggerCount = g.vals[1] * 256 + g.vals[2],
                             !.tkrData.cmdCount = g.vals[3],
                             !.tkrData.trgPattern = trgPattern]
    IN  IF nBoards # a.numTkrBrds
        THEN [state |-> DefaultBoards(
                            [addError(a, ERR_TKR_NUM_BOARDS, nBoards, trgPattern)
                                EXCEPT !.tkrData.nTkrBoards = a.numTkrBrds],
                            0, a.numTkrBrds, 3),
              rc |-> 56]
        ELSE ReadBoards([state |-> [a EXCEPT !.tkrData.nTkrBoards = nBoards],
                         rc |-> 0],
                        startTime, 0, nBoards)

getTrackerData_Event(s, startTime, IDcode, len) ==
    IF len # 5
    THEN [state |-> DefaultTkrEvent(
                        addError(s, ERR_TKR_BAD_LENGTH, IDcode, len), 2),
          rc |-> 55]
    ELSE Event_Boards(tkr_getBytes(NoBytes(s), startTime, 3, 4), startTime)

(* Housekeeping data: the trailer test.  tkrHouseKeeping[nTkrHouseKeeping-1]
   is index -1 when nothing was stored: an indeterminate value. *)
House_Trailer(s) ==
    LET last == IF s.nTkrHouseKeeping = 0 THEN s.in_ub
                ELSE s.tkrHouseKeeping[s.nTkrHouseKeeping - 1]
    IN  [state |-> addErrorIf(s, last # 15, ERR_TKR_BAD_TRAILER, s.tkrCmdCode, last),
         rc |-> 0]

(* the command echo g15 has been read *)
House_Data(g15, startTime, nData) ==
    House_Trailer(
        ReadHouse([addErrorIf(g15.state, g15.val # g15.state.tkrCmdCode,
                              ERR_TKR_BAD_ECHO, g15.val, g15.state.tkrCmdCode)
                      EXCEPT !.nTkrHouseKeeping = 0],
                  startTime, 0, nData))

(* g holds the command count (two bytes) and the FPGA address *)
House_Counts(g, startTime, nData) ==
    LET s2 == [g.state EXCEPT !.tkrCmdCount = g.vals[1] * 256 + g.vals[2],
                              !.tkrHouseKeepingFPGA = g.vals[3]]
    IN  House_Data(
            tkr_getByte(addErrorIf(s2, g.vals[3] > 8, ERR_TKR_BAD_FPGA,
                                   s2.tkrCmdCode, g.vals[3]),
                        startTime, 15),
            startTime, nData)

(* the data count g11 has been read *)
House_Len(g11, startTime, len) ==
    House_Counts(
        tkr_getBytes(NoBytes(addErrorIf(g11.state, len # g11.val + 6,
                                        ERR_TKR_BAD_NDATA, len, g11.val)),
                     startTime, 12, 3),
        startTime,
        IF len # g11.val + 6 THEN U8(len - 6 + 256) ELSE g11.val)

getTrackerData_House(s, startTime, len) ==
    House_Len(tkr_getByte(s, startTime, 11), startTime, len)

(* Command echo: g holds the command count (two bytes) and the command code *)
Echo_Done(g) ==
    LET a == [g.state EXCEPT !.nDataReady = 3,
                             !.dataOut[0] = g.vals[1],
                             !.dataOut[1] = g.vals[2],
                             !.dataOut[2] = g.vals[3],
                             !.tkrCmdCount = g.vals[1] * 256 + g.vals[2]]
    IN  IF a.tkrCmdCode # g.vals[3]
        THEN [state |-> addError(a, ERR_TKR_BAD_ECHO, g.vals[3], a.tkrCmdCode),
              rc |-> 1]
        ELSE [state |-> a, rc |-> 0]

getTrackerData_Echo(s, startTime, IDcode, len) ==
    Echo_Done(tkr_getBytes(
                  NoBytes(addErrorIf(s, len # 4, ERR_TKR_BAD_LENGTH, IDcode, len)),
                  startTime, 17, 3))

getTrackerData_Unknown(s, startTime, IDcode, len) ==
    [state |-> ReadUnknown(
                   [addErrorIf(s, s.nErrors < MXERR, ERR_TKR_BAD_ID, IDcode, len)
                       EXCEPT !.nDataReady = len],
                   startTime, 0, len),
     rc |-> 0]

(* A receiver that answers a wrong identifier with the status of a bad length *)
getTrackerData_Packet_As55(g, startTime, idExpected) ==
    LET len == g.vals[1]
        IDcode == g.vals[2]
        wrong == IDcode # idExpected
        s2 == addErrorIf(g.state,
                         wrong /\ (idExpected # 0 \/ IDcode = TKR_EVT_DATA),
                         ERR_TRK_WRONG_DATA_TYPE, IDcode, idExpected)
    IN  IF wrong /\ idExpected = TKR_EVT_DATA
        THEN [state |-> DefaultTkrEvent(s2, 1), rc |-> 55]
        ELSE IF wrong /\ idExpected = 0 /\ IDcode = TKR_EVT_DATA
        THEN [state |-> s2, rc |-> 53]
        ELSE IF IDcode = TKR_EVT_DATA
        THEN getTrackerData_Event(s2, startTime, IDcode, len)
        ELSE IF IDcode = TKR_HOUSE_DATA
        THEN getTrackerData_House(s2, startTime, len)
        ELSE IF IDcode = TKR_ECHO_DATA
        THEN getTrackerData_Echo(s2, startTime, IDcode, len)
        ELSE getTrackerData_Unknown(s2, startTime, IDcode, len)

(* g holds the length byte and the identifier byte of the packet *)
getTrackerData_Packet(g, startTime, idExpected) ==
    LET len == g.vals[1]
        IDcode == g.vals[2]
        wrong == IDcode # idExpected
        s2 == addErrorIf(g.state,
                         wrong /\ (idExpected # 0 \/ IDcode = TKR_EVT_DATA),
                         ERR_TRK_WRONG_DATA_TYPE, IDcode, idExpected)
    IN  IF wrong /\ idExpected = TKR_EVT_DATA
        THEN [state |-> DefaultTkrEvent(s2, 1), rc |-> 54]
        ELSE IF wrong /\ idExpected = 0 /\ IDcode = TKR_EVT_DATA
        THEN [state |-> s2, rc |-> 53]
        ELSE IF IDcode = TKR_EVT_DATA
        THEN getTrackerData_Event(s2, startTime, IDcode, len)
        ELSE IF IDcode = TKR_HOUSE_DATA
        THEN getTrackerData_House(s2, startTime, len)
        ELSE IF IDcode = TKR_ECHO_DATA
        THEN getTrackerData_Echo(s2, startTime, IDcode, len)
        ELSE getTrackerData_Unknown(s2, startTime, IDcode, len)

(* Function to get a full data packet from the Tracker. *)
getTrackerData(s, idExpected) ==
    getTrackerData_Packet(tkr_getBytes(NoBytes(s), time(s), 1, 2), time(s),
                          idExpected)

(***************************************************************************)
(* Tracker link: send                                                      *)
(***************************************************************************)
UART_TKR_Put(s, bytes) == [s EXCEPT !.tkrTx = @ \o bytes]

(* the echo has been read: r is what getTrackerData returned *)
sendSimple_Done(r) ==
    [addErrorIf(r.state, r.rc # 0, ERR_GET_TKR_DATA, r.rc, r.state.tkrCmdCode)
        EXCEPT !.nDataReady = 0]

(* the three command bytes have been written *)
sendSimple_Sent(a, code) ==
    IF ~a.in_txOk
    THEN addError(AdvanceTime(a, 201), ERR_TX_FAILED, code, 255)
    ELSE sendSimple_Done(IF code # 103 /\ code # 108
                         THEN getTrackerData(a, TKR_ECHO_DATA)
                         ELSE [state |-> a, rc |-> 0])

(* Function to send a command to the tracker that has no data bytes *)
sendSimpleTrackerCmd(s, FPGA, code) ==
    sendSimple_Sent(UART_TKR_Put([s EXCEPT !.tkrCmdCode = code], <<FPGA, code, 0>>),
                    code)

RECURSIVE ResetBoards(_, _)
ResetBoards(s, brd) ==
    IF brd >= s.numTkrBrds THEN s
    ELSE ResetBoards(sendSimpleTrackerCmd(s, brd, 4), brd + 1)

resetAllTrackerLogic(s) == ResetBoards(s, 0)

(***************************************************************************)
(* TOF correlation (main, the critical section of the event assembly)      *)
(***************************************************************************)
ToInt16(x) == LET u == AsU16(x) IN IF u >= 32768 THEN u - 65536 ELSE u

(* Buffer indices in scan order: most recent first, wrapping around *)
ScanOrder(ptr) ==
    [i \in 1..TOFMAX_EVT |->
        IF ptr - (i - 1) - 1 < 0 THEN ptr - (i - 1) - 1 + TOFMAX_EVT
        ELSE ptr - (i - 1) - 1]

(* A channel-A test that takes the entries of the trigger's tick and of the
   tick after it *)
IsCandA_Later(tof, iptr, timeStamp16) ==
    /\ tof.filled[iptr]
    /\ (tof.clkCnt[iptr] = timeStamp16 \/ tof.clkCnt[iptr] = timeStamp16 + 1)

IsCandA(tof, iptr, timeStamp16) ==
    /\ tof.filled[iptr]
    /\ (timeStamp16 = tof.clkCnt[iptr] \/ timeStamp16 = tof.clkCnt[iptr] + 1)

IsCandB(tof, jptr, timeStamp16) ==
    /\ tof.filled[jptr]
    /\ (tof.clkCnt[jptr] = timeStamp16 \/ tof.clkCnt[jptr] = timeStamp16 - 1)

CandA(tof, timeStamp16) ==
    SelectSeq(ScanOrder(tof.ptr), LAMBDA iptr : IsCandA(tof, iptr, timeStamp16))

CandB(tof, timeStamp16) ==
    SelectSeq(ScanOrder(tof.ptr), LAMBDA jptr : IsCandB(tof, jptr, timeStamp16))

(* A 32-bit shift-register word is held as its two 16-bit halves: the
   reference-clock count (upper) and the stop count (lower) *)
stopOf(w) == w.stop

refOf(w) == w.ref

(* dt of one (A, B) pair without the rollover handling *)
PairDt_Plain(AT, BT) ==
    (refOf(BT) * 8333 + stopOf(BT)) - (refOf(AT) * 8333 + stopOf(AT))

(* dt of one (A, B) pair, with the reference-clock rollover handling *)
PairDt(AT, BT) ==
    LET timei == refOf(AT) * 8333 + stopOf(AT)
        timej == refOf(BT) * 8333 + stopOf(BT)
    IN  IF refOf(AT) > 49152 /\ refOf(BT) < 16384
        THEN timej - (timei - 500000000)
        ELSE IF refOf(BT) > 49152 /\ refOf(AT) < 16384
        THEN (timej - 500000000) - timei
        ELSE timej - timei

(* A test that keeps any time difference the 16-bit field can hold *)
Closer_AnyInRange(dt, dtmin) == abs(dt) < 32767

(* The test that keeps the smallest time difference of all combinations *)
Closer(dt, dtmin) == abs(dt) < abs(dtmin)

(* One (A, B) pair of the search: acc holds dtmin, aCLK, bCLK, aTOF, bTOF *)
PairStep(acc, A, B, iptr, jptr) ==
    IF abs(A.clkCnt[iptr] - B.clkCnt[jptr]) > 1 THEN acc
    ELSE LET dt == PairDt(A.shiftReg[iptr], B.shiftReg[jptr])
         IN  IF Closer(dt, acc.dtmin)
             THEN [dtmin |-> ToInt16(dt),
                   aCLK |-> A.clkCnt[iptr], bCLK |-> B.clkCnt[jptr],
                   aTOF |-> refOf(A.shiftReg[iptr]),
                   bTOF |-> refOf(B.shiftReg[jptr])]
             ELSE acc

RECURSIVE PairLoop(_, _, _, _, _, _, _)
PairLoop(acc, A, B, idx, jdx, j, i) ==
    IF j > Len(jdx) THEN acc
    ELSE IF i > Len(idx) THEN PairLoop(acc, A, B, idx, jdx, j + 1, 1)
    ELSE PairLoop(PairStep(acc, A, B, idx[i], jdx[j]), A, B, idx, jdx, j, i + 1)

(* the values the event record reports: the pair kept, and nI and nJ *)
Correlate_Result(r, idx, jdx) ==
    [dtmin |-> r.dtmin, aCLK |-> r.aCLK, bCLK |-> r.bCLK, aTOF |-> r.aTOF,
     bTOF |-> r.bTOF, nI |-> Len(idx), nJ |-> Len(jdx)]

(* A search that starts from a time difference of zero *)
Correlate_Pairs_FromZero(A, B, idx, jdx) ==
    Correlate_Result(PairLoop([dtmin |-> 0, aCLK |-> 65535, bCLK |-> 65535,
                               aTOF |-> 65535, bTOF |-> 65535],
                              A, B, idx, jdx, 1, 1),
                     idx, jdx)

(* the search over all combinations of the candidates idx and jdx *)
Correlate_Pairs(A, B, idx, jdx) ==
    Correlate_Result(PairLoop([dtmin |-> 32767, aCLK |-> 65535, bCLK |-> 65535,
                               aTOF |-> 65535, bTOF |-> 65535],
                              A, B, idx, jdx, 1, 1),
                     idx, jdx)

Correlate(A, B, timeStamp16) ==
    Correlate_Pairs(A, B, CandA(A, timeStamp16), CandB(B, timeStamp16))

(***************************************************************************)
(* Event assembly (main, "Build an event and send it out each time a GO is *)
(* received")                                                              *)
(***************************************************************************)
(* dataOut[nDataReady++] = b, for every byte of bytes; nDataReady is a uint8 *)
PutByte(s, b) ==
    [s EXCEPT !.dataOut[s.nDataReady] = b, !.nDataReady = U8(s.nDataReady + 1)]

(* the bytes are put one after the other, the first half of them first *)
RECURSIVE PutBytes(_, _)
PutBytes_Rest(put, bytes) ==
    IF Computed(put) THEN PutBytes(put, bytes) ELSE put

PutBytes(s, bytes) ==
    IF Len(bytes) = 0 THEN s
    ELSE IF Len(bytes) = 1 THEN PutByte(s, bytes[1])
    ELSE PutBytes_Rest(PutBytes(s, SubSeq(bytes, 1, Len(bytes) \div 2)),
                       SubSeq(bytes, Len(bytes) \div 2 + 1, Len(bytes)))

(* hitList[b]: a read outside the buffer, or of a buffer already freed, yields
   an indeterminate value *)
HitByte(s, p, b) ==
    IF p # NULL /\ s.heap[p].frees = 0 /\ b \in DOMAIN s.heap[p].bytes
    THEN s.heap[p].bytes[b]
    ELSE s.in_ub

RECURSIVE PackBoards(_, _)
PackBoards(s, brd) ==
    IF brd >= s.tkrData.nTkrBoards THEN s
    ELSE LET bh == s.tkrData.boardHits[brd]
         IN  IF s.nDataReady > MAX_DATA_OUT - (5 + bh.nBytes)
             THEN addError(s, ERR_EVT_TOO_BIG, s.dataOut[6], s.dataOut[10])
             ELSE IF bh.hitList = NULL
             THEN PackBoards(PutBytes(s, <<brd, 5, 231, brd, 0, 7, 48>>), brd + 1)
             ELSE PackBoards(
                      [free(PutBytes(s, <<brd, bh.nBytes>> \o
                                        [b \in 1..bh.nBytes |->
                                            HitByte(s, bh.hitList, b - 1)]),
                            bh.hitList)
                          EXCEPT !.tkrData.boardHits[brd].nBytes = 0],
                      brd + 1)

(* The status poll: up to 10 "check status" commands; returns the state and
   tkrDataReady.  Poll_Check: b is the state after the housekeeping packet
   that answers one poll has been read. *)
PollsExhausted_Late(nTry) == nTry > 10

(* "if (nTry > 9)" *)
PollsExhausted(nTry) == nTry > 9

RECURSIVE PollTracker(_, _)
Poll_Check(b, nTry) ==
    LET got == b.nTkrHouseKeeping > 0
        c == IF got THEN [b EXCEPT !.nTkrHouseKeeping = 0] ELSE b
        hk0 == b.tkrHouseKeeping[0]
        d == addErrorIf(c, got /\ hk0 # 78, ERR_TKR_BAD_STATUS, hk0, nTry)
    IN  IF got /\ hk0 = 89 THEN [state |-> c, ready |-> 89]
        ELSE IF PollsExhausted(nTry + 1)
        THEN [state |-> addError(d, ERR_TKR_BAD_STATUS, hk0, nTry + 2),
              ready |-> IF got /\ hk0 = 78 THEN 78 ELSE 0]
        ELSE PollTracker(d, nTry + 1)

PollTracker(s, nTry) ==
    Poll_Check(getTrackerData(UART_TKR_Put([s EXCEPT !.tkrCmdCode = 87],
                                           <<0, 87, 0>>),
                              TKR_HOUSE_DATA).state,
               nTry)

(* r is what getTrackerData(TKR_EVT_DATA) returned *)
ReadEvent_Done(r) ==
    CASE Computed(r.state) ->
        IF r.rc # 0
        THEN resetAllTrackerLogic(
                 [addError(r.state, ERR_GET_TKR_DATA, r.rc, 119)
                     EXCEPT !.tkrRx = r.state.in_rxLate])
        ELSE r.state

ReadTrackerEvent(s) ==
    ReadEvent_Done(getTrackerData(UART_TKR_Put([s EXCEPT !.tkrCmdCode = 1],
                                               <<0, 1, 1, 0>>),
                                  TKR_EVT_DATA))

(* An event header with the event number low byte first *)
EventHeader_LowFirst(s, timeStampSave, c) ==
    <<90, 69, 82, 79,
      byte16(s.runNumber, 0), byte16(s.runNumber, 1),
      byte32(s.cntGO, 3), byte32(s.cntGO, 2), byte32(s.cntGO, 1), byte32(s.cntGO, 0),
      byte32(timeStampSave, 0), byte32(timeStampSave, 1),
      byte32(timeStampSave, 2), byte32(timeStampSave, 3),
      byte32(s.cntGO1, 0), byte32(s.cntGO1, 1), byte32(s.cntGO1, 2), byte32(s.cntGO1, 3),
      byte32(s.in_timeWord, 0), byte32(s.in_timeWord, 1),
      byte32(s.in_timeWord, 2), byte32(s.in_timeWord, 3),
      s.trgStatus,
      byte16(s.in_adc[6], 0), byte16(s.in_adc[6], 1),    \* T1 = adc2[2]
      byte16(s.in_adc[1], 0), byte16(s.in_adc[1], 1),    \* T2 = adc1[0]
      byte16(s.in_adc[4], 0), byte16(s.in_adc[4], 1),    \* T3 = adc2[0]
      byte16(s.in_adc[2], 0), byte16(s.in_adc[2], 1),    \* T4 = adc1[1]
      byte16(s.in_adc[5], 0), byte16(s.in_adc[5], 1),    \* G  = adc2[1]
      byte16(s.in_adc[3], 0), byte16(s.in_adc[3], 1),    \* extra = adc1[2]
      byte16(AsU16(c.dtmin), 0), byte16(AsU16(c.dtmin), 1),
      byte16(s.tkrData.triggerCount, 0), byte16(s.tkrData.triggerCount, 1),
      s.tkrData.cmdCount, s.tkrData.trgPattern,
      U8(c.nI), U8(c.nJ),
      byte16(c.aTOF, 0), byte16(c.aTOF, 1), byte16(c.bTOF, 0), byte16(c.bTOF, 1),
      byte16(c.aCLK, 0), byte16(c.aCLK, 1), byte16(c.bCLK, 0), byte16(c.bCLK, 1),
      s.tkrData.nTkrBoards>>

EventHeader(s, timeStampSave, c) ==
    <<90, 69, 82, 79,
      byte16(s.runNumber, 0), byte16(s.runNumber, 1),
      byte32(s.cntGO, 0), byte32(s.cntGO, 1), byte32(s.cntGO, 2), byte32(s.cntGO, 3),
      byte32(timeStampSave, 0), byte32(timeStampSave, 1),
      byte32(timeStampSave, 2), byte32(timeStampSave, 3),
      byte32(s.cntGO1, 0), byte32(s.cntGO1, 1), byte32(s.cntGO1, 2), byte32(s.cntGO1, 3),
      byte32(s.in_timeWord, 0), byte32(s.in_timeWord, 1),
      byte32(s.in_timeWord, 2), byte32(s.in_timeWord, 3),
      s.trgStatus,
      byte16(s.in_adc[6], 0), byte16(s.in_adc[6], 1),    \* T1 = adc2[2]
      byte16(s.in_adc[1], 0), byte16(s.in_adc[1], 1),    \* T2 = adc1[0]
      byte16(s.in_adc[4], 0), byte16(s.in_adc[4], 1),    \* T3 = adc2[0]
      byte16(s.in_adc[2], 0), byte16(s.in_adc[2], 1),    \* T4 = adc1[1]
      byte16(s.in_adc[5], 0), byte16(s.in_adc[5], 1),    \* G  = adc2[1]
      byte16(s.in_adc[3], 0), byte16(s.in_adc[3], 1),    \* extra = adc1[2]
      byte16(AsU16(c.dtmin), 0), byte16(AsU16(c.dtmin), 1),
      byte16(s.tkrData.triggerCount, 0), byte16(s.tkrData.triggerCount, 1),
      s.tkrData.cmdCount, s.tkrData.trgPattern,
      U8(c.nI), U8(c.nJ),
      byte16(c.aTOF, 0), byte16(c.aTOF, 1), byte16(c.bTOF, 0), byte16(c.bTOF, 1),
      byte16(c.aCLK, 0), byte16(c.aCLK, 1), byte16(c.bCLK, 0), byte16(c.bCLK, 1),
      s.tkrData.nTkrBoards>>

(* The parts of the event assembly, last first.  Finish_Clear: the TOF
   buffers are cleared and the tracker data released. *)
Finish_Clear(s) ==
    [s EXCEPT !.tofA = ClearTof(s.tofA),
              !.tofB = ClearTof(s.tofB),
              !.tkrData.nTkrBoards = 0]

(* the event is in dataOut *)
Finish_Ready(s) == [s EXCEPT !.eventDataReady = TRUE]

Build_Finish(s) == Finish_Clear(Finish_Ready(s))

(* the header, the board hit lists and the trailer go to dataOut *)
Pack_Record(s, timeStampSave, c) ==
    PutBytes(PackBoards(PutBytes([s EXCEPT !.nDataReady = 0],
                                 EventHeader(s, timeStampSave, c)),
                        0),
             <<70, 73, 78, 73>>)

Build_Pack(s, timeStampSave, c) ==
    CASE Computed(s) -> Build_Finish(Pack_Record(s, timeStampSave, c))

(* the TOF search, after the tracker data are in *)
Build_Correlate(s, timeStampSave) ==
    CASE Computed(s) ->
        Build_Pack(s, timeStampSave, Correlate(s.tofA, s.tofB, U16(timeStampSave)))

(* poll is what the status poll returned: read the event or make empty data *)
Tracker_Data(poll) ==
    IF poll.ready = 89 THEN ReadTrackerEvent(poll.state)
    ELSE DefaultTkrEvent(poll.state, 6)

Build_Tracker(poll, timeStampSave) ==
    CASE Computed(poll.state) -> Build_Correlate(Tracker_Data(poll), timeStampSave)

(* the digitizers are done or timed out: poll the tracker *)
Poll_Result(s) ==
    IF s.readTracker THEN PollTracker(s, 0) ELSE [state |-> s, ready |-> 0]

Build_Poll(s, timeStampSave) == Build_Tracker(Poll_Result(s), timeStampSave)

(* "triggered = false" and the wait for the digitizers' done signal *)
Build_Digitizers(s) ==
    IF s.in_daqDone THEN [s EXCEPT !.triggered = FALSE]
    ELSE addError(AdvanceTime([s EXCEPT !.triggered = FALSE], 21),
                  ERR_PMT_DAQ_TIMEOUT, U8(s.cntGO), U8(s.cntGO \div 256))

BuildEvent(s) == Build_Poll(Build_Digitizers(s), s.timeStamp)

(***************************************************************************)
(* Output of a packet (main, "Data goes out by USBUART ... or by SPI")     *)
(***************************************************************************)
OutputPacket(s) ==
    LET total == s.nDataBytes + s.nDataReady
        nPadding == IF 3 - (total % 3) = 3 THEN 0 ELSE 3 - (total % 3)
        header == <<220, 0, 255, U8(s.nDataReady + s.nDataBytes),
                    IF ~s.cmdDone THEN 221 ELSE s.command, s.nDataBytes>>
        echo == [i \in 1..s.nDataBytes |-> s.cmdData[i - 1]]
        data == [i \in 1..s.nDataReady |-> s.dataOut[i - 1]]
        pad == SubSeq(<<1, 2>>, 1, nPadding)
    IN  header \o echo \o data \o pad \o <<255, 0, 255>>

(* after the packet has gone out: "if (cmdDone) ..." *)
Output_CmdDone(s) ==
    IF s.cmdDone
    THEN [s EXCEPT !.nDataBytes = 0, !.awaitingCommand = TRUE, !.cmdDone = FALSE]
    ELSE s

(* after the packet has gone out: "if (eventDataReady) ..." re-arms the trigger *)
Output_Rearm(s) ==
    Output_CmdDone(IF s.eventDataReady
                   THEN [triggerEnable(s, TRUE) EXCEPT !.eventDataReady = FALSE]
                   ELSE s)

MainOutput(s) ==
    IF s.nDataReady > 0 \/ s.cmdDone
    THEN IF s.nDataReady > 0
         THEN Output_Rearm([s EXCEPT !.usbOut = Append(@, OutputPacket(s)),
                                     !.nDataReady = 0])
         ELSE [s EXCEPT !.awaitingCommand = TRUE, !.cmdDone = FALSE]
    ELSE s

(* A main loop without the time-out protection *)
MainTimeout_Never(s) == s

(* Time-out protection in case the expected data for a command are never sent *)
MainTimeout(s) ==
    IF ~s.awaitingCommand /\ ElapsedOver(time(s), s.cmdStartTime, TIMEOUT)
    THEN [s EXCEPT !.awaitingCommand = TRUE, !.cmdDone = FALSE, !.nDataBytes = 0,
                   !.nCmdTimeOut = s.nCmdTimeOut + 1]
    ELSE s

(* Send out Tracker housekeeping data immediately after receiving it *)
MainHousekeeping(s) ==
    IF ~isTriggerEnabled(s) /\ s.nTkrHouseKeeping > 0
    THEN LET n == s.nTkrHouseKeeping
             head == <<U8(n + 7), 199, n, byte16(s.tkrCmdCount, 0),
                       byte16(s.tkrCmdCount, 1), s.tkrHouseKeepingFPGA,
                       s.tkrCmdCode>>
         IN  [s EXCEPT !.nDataReady = U8(n + 7),
                       !.dataOut = [i \in 0..(MAX_DATA_OUT - 1) |->
                                      IF i >= 6 /\ i < 6 + n
                                      THEN s.tkrHouseKeeping[i - 6]
                                      ELSE IF i < 6 THEN head[i + 1]
                                      ELSE s.dataOut[i]],
                       !.nTkrHouseKeeping = 0]
    ELSE s

(***************************************************************************)
(* Command frames                                                          *)
(***************************************************************************)
(* code[]: ASCII code translation to hex nibbles; anything else gives 0 *)
code(c) ==
    IF c >= 49 /\ c <= 57 THEN c - 48
    ELSE IF c >= 65 /\ c <= 70 THEN c - 55
    ELSE IF c >= 97 /\ c <= 102 THEN c - 87
    ELSE 0

(* The three copies of a frame, from the C buffer (index 0 is buffer[1]) *)
Copy1(buffer) == SubSeq(buffer, 1, 9)

Copy2(buffer) == SubSeq(buffer, 10, 18)

Copy3(buffer) == SubSeq(buffer, 19, 27)

(* First index at which two 9-byte copies differ, 9 if none *)
FirstDiff(x, y) ==
    IF \E i \in 1..9 : x[i] # y[i]
    THEN (CHOOSE i \in 1..9 : x[i] # y[i] /\ \A k \in 1..(i - 1) : x[k] = y[k]) - 1
    ELSE 9

(* A check that takes the first copy whatever the other two hold *)
Triplication_FirstCopy(buffer) ==
    [badCMD |-> FALSE, copy |-> Copy1(buffer)]

(* The triplication check of a 27-byte frame: badCMD, the copy left in
   buffer[0..8] and, when the frame is rejected, the error to be logged. *)
Triplication(buffer) ==
    LET c1 == Copy1(buffer)
        c2 == Copy2(buffer)
        c3 == Copy3(buffer)
    IN  IF c1 = c2 /\ c1 = c3 THEN [badCMD |-> FALSE, copy |-> c1]
        ELSE IF c1 = c2 THEN [badCMD |-> FALSE, copy |-> c1]
        ELSE IF c1 = c3 THEN [badCMD |-> FALSE, copy |-> c1]
        ELSE IF c2 = c3 THEN [badCMD |-> FALSE, copy |-> c2]
        ELSE [badCMD |-> TRUE, copy |-> c1,
              val0 |-> code(c2[FirstDiff(c2, c3) + 1]), val1 |-> FirstDiff(c2, c3)]

ByteCount(addressByte) == ((addressByte \div 64) * 4) + (addressByte % 4)

(* An address field that every board takes for its own *)
PSOCaddress_Any(addressByte) == eventPSOCaddress

PSOCaddress(addressByte) == (addressByte \div 4) % 16

(***************************************************************************)
(* Command handlers (the cases of the dispatch switch)                     *)
(***************************************************************************)
SetOut(s, bytes) ==
    [s EXCEPT !.nDataReady = Len(bytes),
              !.dataOut = [i \in 0..(MAX_DATA_OUT - 1) |->
                             IF i < Len(bytes) THEN bytes[i + 1] ELSE s.dataOut[i]]]

(* A DAC load that sends the low byte first *)
loadDAC_LowFirst(s, I2C_Address, voltage) ==
    [state |-> [s EXCEPT !.i2cLog = Append(@, [address |-> I2C_Address,
                                               bytes |-> <<voltage % 256,
                                                           (voltage \div 256) % 16>>,
                                               stopped |-> s.in_i2c.failAt = 0])],
     rc |-> IF s.in_i2c.failAt = 0 THEN 0 ELSE s.in_i2c.rc]

(* Load the AD5622 DAC.  in_i2c names the bus call that fails (1 the start,
   2 and 3 the two byte writes, 4 the stop, 0 none) and the status it returns.
   i2cLog gets the address, the bytes the DAC has taken and whether the stop
   went out.  The wait for the end of the transfer changes no state. *)
loadDAC(s, I2C_Address, voltage) ==
    LET nib0 == voltage % 256
        nib1 == (voltage \div 256) % 16
        failAt == s.in_i2c.failAt
        taken == IF failAt \in {1, 2} THEN <<>>
                 ELSE IF failAt = 3 THEN <<nib1>>
                 ELSE <<nib1, nib0>>
    IN  [state |-> [s EXCEPT !.i2cLog = Append(@, [address |-> I2C_Address,
                                                   bytes |-> taken,
                                                   stopped |-> failAt = 0])],
         rc |-> IF failAt = 0 THEN 0 ELSE s.in_i2c.rc]

(* rc = loadDAC(...); if (rc != 0) addError(ERR_DAC_LOAD, rc, address) *)
LoadDAC_Done(r, address) ==
    addErrorIf(r.state, r.rc # 0, ERR_DAC_LOAD, r.rc, address)

(* case '\x01': Load a threshold DAC setting *)
Cmd_LoadDAC(s) ==
    CASE s.cmdData[0] = 5 ->
             LoadDAC_Done(loadDAC(s, I2C_Address_DAC_Ch5,
                                  U16(s.cmdData[1] * 256) + s.cmdData[2]),
                          I2C_Address_DAC_Ch5)
      [] s.cmdData[0] \in 1..4 ->
             [s EXCEPT !.thrDACsettings[s.cmdData[0] - 1] = s.cmdData[1]]
      [] OTHER -> s

(* An error read-out that leaves the records in the log *)
Cmd_ReadErrors_NoReset(s) ==
    IF s.nErrors = 0 THEN SetOut(s, <<0, 238, 255>>)
    ELSE [SetOut(s, [k \in 1..(3 * s.nErrors) |->
                       LET e == s.errors[(k - 1) \div 3]
                       IN  CASE (k - 1) % 3 = 0 -> e.errorCode
                             [] (k - 1) % 3 = 1 -> e.value0
                             [] OTHER -> e.value1])
            EXCEPT !.nDataReady = U8(3 * s.nErrors),
                   !.nReported = s.nReported + s.nErrors]

(* The record at index i; a read behind the array gives indeterminate bytes *)
ErrorAt(s, i) ==
    IF i < MXERR THEN s.errors[i]
    ELSE [errorCode |-> -1, value0 |-> -1, value1 |-> -1]

(* case '\x03': Read back all of the accumulated error codes *)
Cmd_ReadErrors(s) ==
    IF s.nErrors = 0 THEN SetOut(s, <<0, 238, 255>>)
    ELSE [SetOut(s, [k \in 1..(3 * s.nErrors) |->
                       LET e == ErrorAt(s, (k - 1) \div 3)
                       IN  CASE (k - 1) % 3 = 0 -> e.errorCode
                             [] (k - 1) % 3 = 1 -> e.value0
                             [] OTHER -> e.value1])
            EXCEPT !.nDataReady = U8(3 * s.nErrors), !.nErrors = 0,
                   !.nReported = s.nReported + s.nErrors]

(* case '\x05': Read the TOF DAC settings.  Only a first data byte of 1 or 2
   names a DAC; the hosts of this model send no such byte, and every other
   value leaves the switch at once. *)
Cmd_ReadTofDAC(s) ==
    CASE s.cmdData[0] \notin {1, 2} -> s

(* case '\x07': Return the version number *)
Cmd_Version(s) == SetOut(s, <<VERSION>>)

(* case '\x38': Reset the logic and counters *)
Cmd_LogicReset(s) ==
    LET now == time(s)
    IN  logicReset(SetOut(s, <<(now \div 65536) % 256, (now \div 256) % 256,
                               now % 256>>))

(* case '\x3B': Enable or disable the trigger *)
Cmd_Trigger(s) ==
    IF s.cmdData[0] = 1 THEN triggerEnable(s, TRUE)
    ELSE IF s.cmdData[0] = 0 THEN triggerEnable(s, FALSE)
    ELSE s

(* case '\x44': End a run and send out the run summary *)
Cmd_EndRun(s) ==
    SetOut(triggerEnable([s EXCEPT !.triggered = FALSE], FALSE),
           <<byte32(s.cntGO1, 0), byte32(s.cntGO1, 1), byte32(s.cntGO1, 2),
             byte32(s.cntGO1, 3), byte32(s.cntGO, 0), byte32(s.cntGO, 1),
             byte32(s.cntGO, 2), byte32(s.cntGO, 3)>>)

(* case '\x3C': Start a run *)
StartRun_Echo(r) ==
    addErrorIf(r.state, r.rc # 0, ERR_TKR_TRG_ENABLE, r.state.dataOut[2], r.rc)

StartRun_Tracker(s) ==
    IF s.readTracker
    THEN StartRun_Echo(getTrackerData(UART_TKR_Put([s EXCEPT !.tkrCmdCode = 101],
                                                   <<0, 101, 0>>),
                                      TKR_ECHO_DATA))
    ELSE s

Cmd_StartRun(s) ==
    [StartRun_Tracker(
         triggerEnable(
             [s EXCEPT !.tofA = ClearTof(s.tofA), !.tofB = ClearTof(s.tofB),
                       !.clkCnt = 0,
                       !.runNumber = U16(s.cmdData[0] * 256) + s.cmdData[1],
                       !.readTracker = (s.cmdData[2] = 1),
                       !.cntGO = 0, !.cntGO1 = 0],
             TRUE))
        EXCEPT !.nDataReady = 0]

(* case '\x3D': Return trigger enable status *)
Cmd_TrgStatus(s) == SetOut(s, <<IF isTriggerEnabled(s) THEN 1 ELSE 0>>)

(* Function to receive ASIC register data from the Tracker: the first byte
   is the count of the bytes that follow, each with a start time of its own *)
RECURSIVE ReadAsic(_, _)
StoreAsicByte(g, i) == [g.state EXCEPT !.dataOut[i] = g.val]

ReadAsic(s, i) ==
    IF i >= s.nDataReady \/ ~Computed(s) THEN s
    ELSE ReadAsic(StoreAsicByte(tkr_getByte(s, time(s), U8(70 + i)), i), i + 1)

getASICdata_Count(g) ==
    [g.state EXCEPT !.nDataReady = U8(g.val + 1), !.dataOut[0] = g.val]

getASICdata(s) == ReadAsic(getASICdata_Count(tkr_getByte(s, time(s), 69)), 1)

(* Function to receive i2c register data from the Tracker *)
getTKRi2cData_Done(g) ==
    [g.state EXCEPT !.nDataReady = 4,
                    !.dataOut[0] = g.vals[1], !.dataOut[1] = g.vals[2],
                    !.dataOut[2] = g.vals[3], !.dataOut[3] = g.vals[4]]

getTKRi2cData(s) ==
    LET g1 == tkr_getByte(s, time(s), 137)
    IN  getTKRi2cData_Done(tkr_getBytes([state |-> g1.state, vals |-> <<g1.val>>],
                                        time(s), 144, 3))

(* case '\x10': Send an arbitrary command to the tracker.  TkrPass_Receive:
   the bytes coming back from the tracker, after the transmit wait *)
TkrPass_Data(r) ==
    addErrorIf(r.state, r.rc # 0, ERR_GET_TKR_DATA, r.rc, r.state.command)

TkrPass_Receive(s) ==
    IF s.tkrCmdCode = 103 \/ s.tkrCmdCode = 108 THEN s
    ELSE IF s.tkrCmdCode >= 32 /\ s.tkrCmdCode <= 37 THEN getASICdata(s)
    ELSE IF s.tkrCmdCode = 70 THEN getTKRi2cData(s)
    ELSE TkrPass_Data(getTrackerData(s, 0))

(* the wait for the transmit buffer to drain: its expiry ends the wait only *)
TkrPass_Wait(a) ==
    TkrPass_Receive(IF a.in_txOk THEN a
                    ELSE addError(AdvanceTime(a, 201), ERR_TX_FAILED,
                                  a.tkrCmdCode, a.command))

(* a wait whose expiry ends the command *)
TkrPass_Sent(a) ==
    TkrPass_Wait(IF a.tkrCmdCode = 15 THEN [a EXCEPT !.numTkrBrds = a.cmdData[3]]
                 ELSE a)

Cmd_TkrPass(s) ==
    LET a == [s EXCEPT !.tkrCmdCode = s.cmdData[1]]
    IN  IF a.tkrCmdCode = 82 \/ a.tkrCmdCode = 83 THEN a
        ELSE TkrPass_Sent(
                 UART_TKR_Put(a, <<a.cmdData[0], a.tkrCmdCode, a.cmdData[2]>>
                                  \o [i \in 1..a.cmdData[2] |-> a.cmdData[2 + i]]))

(* switch (command): the cases the hosts of this model reach; a code without
   a case (OTHER) falls through the switch *)
Handler(s) ==
    CASE s.command = CMD_LOAD_DAC -> Cmd_LoadDAC(s)
      [] s.command = CMD_ERRORS -> Cmd_ReadErrors(s)
      [] s.command = CMD_TOF_DAC_READ -> Cmd_ReadTofDAC(s)
      [] s.command = CMD_TKR_PASS -> Cmd_TkrPass(s)
      [] s.command = CMD_VERSION -> Cmd_Version(s)
      [] s.command = CMD_LOGIC_RESET -> Cmd_LogicReset(s)
      [] s.command = CMD_TRIGGER -> Cmd_Trigger(s)
      [] s.command = CMD_START_RUN -> Cmd_StartRun(s)
      [] s.command = CMD_TRG_STATUS -> Cmd_TrgStatus(s)
      [] s.command = CMD_END_RUN -> Cmd_EndRun(s)
      [] OTHER -> s

(* "If the trigger is enabled, ignore all commands besides disable trigger" *)
GateOpen(s) ==
    s.command = CMD_TRG_STATUS \/ s.command = CMD_END_RUN \/ ~isTriggerEnabled(s)

(* if (cmdDone && !badCMD) { ... }: run the handler or log the command as
   ignored.  dispatch records which of the two happened. *)
Dispatch(s) ==
    IF GateOpen(s)
    THEN [Handler(s) EXCEPT !.dispatch = [code |-> s.command, ran |-> TRUE],
                            !.nDispatch = s.nDispatch + 1]
    ELSE [addError(s, ERR_CMD_IGNORE, s.command, 0)
             EXCEPT !.dispatch = [code |-> s.command, ran |-> FALSE],
                    !.nDispatch = s.nDispatch + 1]

(* The decoding of an accepted frame: start of a new command or a data byte
   of the command in progress. Returns the state and badCMD. *)
Decode(s, copy) ==
    LET addressByte == code(copy[4]) * 16 + code(copy[5])
        dataByte == code(copy[2]) * 16 + code(copy[3])
        counted == IF s.awaitingCommand
                   THEN [s EXCEPT !.cmdCountGLB = s.cmdCountGLB + 1]
                   ELSE s
    IN  IF PSOCaddress(addressByte) # eventPSOCaddress
        THEN [state |-> counted, badCMD |-> FALSE]
        ELSE IF s.awaitingCommand
        THEN [state |-> [s EXCEPT !.cmdCountGLB = s.cmdCountGLB + 1,
                                  !.awaitingCommand = FALSE,
                                  !.cmdStartTime = time(s),
                                  !.cmdCount = s.cmdCount + 1,
                                  !.supplied = {},
                                  !.dCnt = 0,
                                  !.nDataBytes = ByteCount(addressByte),
                                  !.command = dataByte,
                                  !.cmdDone = (ByteCount(addressByte) = 0) \/ @],
              badCMD |-> FALSE]
        ELSE LET byteCnt == ByteCount(addressByte)
             IN  IF byteCnt # 0
                 THEN [state |-> [s EXCEPT !.cmdData[byteCnt - 1] = dataByte,
                                           !.supplied = s.supplied \cup {byteCnt},
                                           !.dCnt = s.dCnt + 1,
                                           !.cmdDone = (s.dCnt + 1 = s.nDataBytes) \/ @],
                       badCMD |-> FALSE]
                 ELSE [state |-> addError(s, ERR_BAD_BYTE, s.command, s.nDataBytes),
                       badCMD |-> TRUE]

(* if (count == CMD_LENGTH) { ... }: the whole treatment of one frame *)
(* d is what the decoding returned *)
Parse_Decoded(d) ==
    IF d.state.cmdDone /\ d.badCMD
    THEN [d.state EXCEPT !.cmdDone = FALSE, !.awaitingCommand = TRUE,
                         !.nDataBytes = 0]
    ELSE IF d.state.cmdDone /\ ~d.badCMD THEN Dispatch(d.state)
    ELSE d.state

(* A parser that drops a rejected frame without logging it *)
Parse_Checked_Silent(s, t) ==
    IF t.badCMD THEN s
    ELSE IF t.copy[1] # CH_S \/ t.copy[9] # CH_W THEN s
    ELSE Parse_Decoded(Decode(s, t.copy))

(* t is what the triplication check returned *)
Parse_Checked(s, t) ==
    IF t.badCMD THEN addError(s, ERR_BAD_CMD, t.val0, t.val1)
    ELSE IF t.copy[1] # CH_S \/ t.copy[9] # CH_W THEN s
    ELSE Parse_Decoded(Decode(s, t.copy))

ParseFrame(s, buffer) == Parse_Checked(s, Triplication(buffer))

(* The ring of frames the command UART interrupt fills *)
ptrNext(ptr) == IF ptr < MX_CMDS - 1 THEN ptr + 1 ELSE 0

(* isrUART with the CMD_LENGTH bytes of one frame waiting in the UART: the
   frame goes to the slot at cmdWritePtr (whose nBytes is 0), unless the ring
   is full, when the loop of the handler takes no byte. *)
isrUART(s, frame) ==
    IF s.cmdWritePtr = s.cmdReadPtr THEN s
    ELSE LET readPtr == IF s.cmdReadPtr >= MX_CMDS THEN s.cmdWritePtr
                        ELSE s.cmdReadPtr
             writePtr == ptrNext(s.cmdWritePtr)
             stored == [s EXCEPT !.cmd_buffer[s.cmdWritePtr] =
                                     [buf |-> frame, nBytes |-> CMD_LENGTH],
                                 !.cmdReadPtr = readPtr,
                                 !.cmdWritePtr = writePtr]
         IN  IF writePtr = readPtr
             THEN addError(stored, ERR_CMD_BUF_OVERFLOW, writePtr, 0)
             ELSE [stored EXCEPT !.cmd_buffer[writePtr].nBytes = 0]

(* One turn of the loop of isrUART: the byte goes to the slot at cmdWritePtr
   at offset nBytes; a store at an offset of CMD_LENGTH or more lands behind
   the slot, in memory this model does not hold *)
StoreCmdByte(slot, b) ==
    IF slot.nBytes < Len(slot.buf)
    THEN [buf |-> [slot.buf EXCEPT ![slot.nBytes + 1] = b], nBytes |-> slot.nBytes + 1]
    ELSE IF slot.nBytes = Len(slot.buf) /\ slot.nBytes < CMD_LENGTH
    THEN [buf |-> Append(slot.buf, b), nBytes |-> slot.nBytes + 1]
    ELSE [buf |-> slot.buf, nBytes |-> U8(slot.nBytes + 1)]

isrUART_Byte(s, b) ==
    IF s.cmdWritePtr = s.cmdReadPtr THEN s
    ELSE LET slot == StoreCmdByte(s.cmd_buffer[s.cmdWritePtr], b)
             stored == [s EXCEPT !.cmd_buffer[s.cmdWritePtr] = slot]
             readPtr == IF s.cmdReadPtr >= MX_CMDS THEN s.cmdWritePtr
                        ELSE s.cmdReadPtr
             writePtr == ptrNext(s.cmdWritePtr)
             moved == [stored EXCEPT !.cmdReadPtr = readPtr,
                                     !.cmdWritePtr = writePtr]
         IN  IF slot.nBytes # CMD_LENGTH THEN stored
             ELSE IF writePtr = readPtr
             THEN addError(moved, ERR_CMD_BUF_OVERFLOW, writePtr, 0)
             ELSE [moved EXCEPT !.cmd_buffer[writePtr].nBytes = 0]

(* A read-out that moves on without looking at cmdWritePtr *)
UartRead_MoveOn(s) ==
    [s EXCEPT !.rxFrame = s.cmd_buffer[s.cmdReadPtr].buf,
              !.cmd_buffer[s.cmdReadPtr].nBytes = 0,
              !.cmdReadPtr = ptrNext(s.cmdReadPtr)]

(* "Command from UART": the main loop takes the frame at cmdReadPtr, with the
   UART interrupt disabled *)
UartRead(s) ==
    [s EXCEPT !.rxFrame = s.cmd_buffer[s.cmdReadPtr].buf,
              !.cmd_buffer[s.cmdReadPtr].nBytes = 0,
              !.cmdReadPtr = IF ptrNext(s.cmdReadPtr) # s.cmdWritePtr
                             THEN ptrNext(s.cmdReadPtr) ELSE 255]

(* "Get a 9-byte command input from the UART or USB-UART": buffer is what
   USBUART_GetAll delivered, <<>> when nothing is waiting; then a frame is
   taken from the ring of the command UART if one is there. *)
MainCommand(s, buffer) ==
    IF s.nDataReady = 0 /\ Len(buffer) = CMD_LENGTH
    THEN ParseFrame([s EXCEPT !.rxFrame = buffer], buffer)
    ELSE IF s.nDataReady = 0 /\ Len(buffer) = 0 /\ s.cmdReadPtr < MX_CMDS
    THEN ParseFrame(UartRead(s), s.cmd_buffer[s.cmdReadPtr].buf)
    ELSE s

(***************************************************************************)
(* The host: frames as the host formats them                               *)
(***************************************************************************)
HexChar(n) == IF n < 10 THEN 48 + n ELSE 55 + n

(* Address byte for the board at address with byte count (or byte index) n *)
AddressByteOf(address, n) == ((n \div 4) * 64) + (address * 4) + (n % 4)

(* Address byte for this board *)
AddressByte(n) == AddressByteOf(eventPSOCaddress, n)

FrameCopy(dataByte, addressByte) ==
    <<CH_S, HexChar(dataByte \div 16), HexChar(dataByte % 16),
      HexChar(addressByte \div 16), HexChar(addressByte % 16), CH_SP, 48, 48, CH_W>>

Frame(dataByte, n) ==
    LET c == FrameCopy(dataByte, AddressByte(n))
    IN  c \o c \o c \o <<CH_CR, CH_LF>>

(***************************************************************************)
(* Initial state: main() at the entry of its for(;;) loop                  *)
(***************************************************************************)
EmptyTof ==
    [shiftReg |-> [i \in 0..(TOFMAX_EVT - 1) |-> [ref |-> 0, stop |-> 0]],
     clkCnt |-> [i \in 0..(TOFMAX_EVT - 1) |-> 0],
     filled |-> [i \in 0..(TOFMAX_EVT - 1) |-> FALSE],
     ptr |-> 0]

Boot ==
    [Control_Reg_Trg |-> 0, triggered |-> FALSE, trgStatus |-> 0,
     timeStamp |-> 0, cntGO |-> 0, cntGO1 |-> 0, clkCnt |-> 0, cnt200val |-> 0,
     runNumber |-> 0, readTracker |-> FALSE, numTkrBrds |-> 1,
     thrDACsettings |-> [i \in 0..3 |-> THRDEF],
     errors |-> [i \in 0..(MXERR - 1) |->
                    [errorCode |-> 0, value0 |-> 0, value1 |-> 0]],
     nErrors |-> 0,
     dataOut |-> [i \in 0..(MAX_DATA_OUT - 1) |-> 0],
     nDataReady |-> 0, eventDataReady |-> FALSE, awaitingCommand |-> TRUE,
     cmdDone |-> FALSE, command |-> 0,
     cmdData |-> [i \in 0..(MAX_CMD_DATA - 1) |-> 0],
     nDataBytes |-> 0, dCnt |-> 0, cmdStartTime |-> 0,
     outputMode |-> USBUART_OUTPUT,
     tkrData |-> [triggerCount |-> 0, cmdCount |-> 0, trgPattern |-> 0,
                  nTkrBoards |-> 0,
                  boardHits |-> [b \in 0..(MAX_TKR_BOARDS - 1) |->
                                    [nBytes |-> 0, hitList |-> NULL]]],
     tkrCmdCode |-> 0, tkrCmdCount |-> 0, nTkrHouseKeeping |-> 0,
     tkrHouseKeeping |-> [i \in 0..(TKRHOUSE_LEN - 1) |-> 0],
     tkrHouseKeepingFPGA |-> 0,
     heap |-> <<>>, tofA |-> EmptyTof, tofB |-> EmptyTof, pc |-> "event",
     usbOut |-> <<>>, tkrRx |-> <<>>, tkrTx |-> <<>>, rxFrame |-> <<>>,
     dispatch |-> [code |-> 0, ran |-> FALSE], nDispatch |-> 0,
     nFrames |-> 0, nTicks |-> 0, nHits |-> 0, nGO |-> 0,
     cmdCountGLB |-> 0,
     cmdCount |-> 0,
     nCmdTimeOut |-> 0,
     cmdWritePtr |-> 0,
     cmdReadPtr |-> 255,
     cmd_buffer |-> [i \in 0..(MX_CMDS - 1) |-> [buf |-> <<>>, nBytes |-> 0]],
     supplied |-> {},
     i2cLog |-> <<>>,
     addErrorReg |-> [busy |-> FALSE, nErrors |-> 0, errorCode |-> 0,
                     value0 |-> 0, value1 |-> 0],
     nLogged |-> 0,
     nReported |-> 0,
     tkrCall |-> [idExpected |-> 0, len |-> 0, IDcode |-> 0, rc |-> 0],
     nCalls |-> 0,
     nUart |-> 0,
     txFifoFull |-> FALSE,
     waitStart |-> 0,
     intMasked |-> FALSE,
     savedStamp |-> 0,
     idxA |-> <<>>,
     corr |-> [dtmin |-> 32767, aCLK |-> 65535, bCLK |-> 65535, aTOF |-> 65535, bTOF |-> 65535, nI |-> 0, nJ |-> 0],
     sinceClear |-> 0,
     getByte |-> [busy |-> FALSE, startTime |-> 0, flag |-> 0, val |-> 0, expired |-> FALSE],
     in_mfail |-> {}, mcnt |-> 0, in_txOk |-> TRUE, in_ub |-> 0,
     in_rxLate |-> <<>>, in_daqDone |-> TRUE,
     in_adc |-> <<0, 0, 0, 0, 0, 0>>, in_timeWord |-> 0, in_i2c |-> [failAt |-> 0, rc |-> 0]]

(* The machine is in state r *)
InitFrom(r) ==
    /\ Control_Reg_Trg = r.Control_Reg_Trg
    /\ triggered = r.triggered
    /\ trgStatus = r.trgStatus
    /\ timeStamp = r.timeStamp
    /\ cntGO = r.cntGO
    /\ cntGO1 = r.cntGO1
    /\ clkCnt = r.clkCnt
    /\ cnt200val = r.cnt200val
    /\ runNumber = r.runNumber
    /\ readTracker = r.readTracker
    /\ numTkrBrds = r.numTkrBrds
    /\ thrDACsettings = r.thrDACsettings
    /\ errors = r.errors
    /\ nErrors = r.nErrors
    /\ dataOut = r.dataOut
    /\ nDataReady = r.nDataReady
    /\ eventDataReady = r.eventDataReady
    /\ awaitingCommand = r.awaitingCommand
    /\ cmdDone = r.cmdDone
    /\ command = r.command
    /\ cmdData = r.cmdData
    /\ nDataBytes = r.nDataBytes
    /\ dCnt = r.dCnt
    /\ cmdStartTime = r.cmdStartTime
    /\ outputMode = r.outputMode
    /\ tkrData = r.tkrData
    /\ tkrCmdCode = r.tkrCmdCode
    /\ tkrCmdCount = r.tkrCmdCount
    /\ nTkrHouseKeeping = r.nTkrHouseKeeping
    /\ tkrHouseKeeping = r.tkrHouseKeeping
    /\ tkrHouseKeepingFPGA = r.tkrHouseKeepingFPGA
    /\ heap = r.heap
    /\ tofA = r.tofA
    /\ tofB = r.tofB
    /\ pc = r.pc
    /\ usbOut = r.usbOut
    /\ tkrRx = r.tkrRx
    /\ tkrTx = r.tkrTx
    /\ rxFrame = r.rxFrame
    /\ dispatch = r.dispatch
    /\ nDispatch = r.nDispatch
    /\ nFrames = r.nFrames
    /\ nTicks = r.nTicks
    /\ nHits = r.nHits
    /\ nGO = r.nGO
    /\ cmdCountGLB = r.cmdCountGLB
    /\ cmdCount = r.cmdCount
    /\ nCmdTimeOut = r.nCmdTimeOut
    /\ cmdWritePtr = r.cmdWritePtr
    /\ cmdReadPtr = r.cmdReadPtr
    /\ cmd_buffer = r.cmd_buffer
    /\ supplied = r.supplied
    /\ i2cLog = r.i2cLog
    /\ addErrorReg = r.addErrorReg
    /\ nLogged = r.nLogged
    /\ nReported = r.nReported
    /\ tkrCall = r.tkrCall
    /\ nCalls = r.nCalls
    /\ nUart = r.nUart
    /\ txFifoFull = r.txFifoFull
    /\ waitStart = r.waitStart
    /\ intMasked = r.intMasked
    /\ savedStamp = r.savedStamp
    /\ idxA = r.idxA
    /\ corr = r.corr
    /\ sinceClear = r.sinceClear
    /\ getByte = r.getByte

Init == InitFrom(Boot)

(***************************************************************************)
(* Actions                                                                 *)
(***************************************************************************)
(* The GO signal arrives and the GO interrupt runs *)
GOStep(max) ==
    /\ nGO < max
    /\ Commit([isrGO1(St, 5) EXCEPT !.nGO = nGO + 1])

GO == GOStep(MaxGO)

(* Time passes while a command is in progress and the main loop is about to
   test the command time-out: TIMEOUT + 1 ticks of the 200 Hz clock *)
Tick ==
    /\ nTicks < MaxTicks
    /\ pc = "timeout"
    /\ ~awaitingCommand
    /\ Commit([AdvanceTime(St, TIMEOUT + 1) EXCEPT !.nTicks = nTicks + 1])

(* The inputs of one event assembly *)
WithEventInput(s, in) ==
    [s EXCEPT !.in_daqDone = in.daqDone, !.in_mfail = in.mfail,
              !.tkrRx = s.tkrRx \o in.rx, !.in_rxLate = in.rxLate,
              !.in_ub = in.ub]

QuietEvent ==
    [daqDone |-> TRUE, mfail |-> {}, rx |-> <<>>, rxLate |-> <<>>, ub |-> 0]

(* Main loop, first part: build an event if a GO was accepted and no command
   is in progress *)
MainEventSection(s, in) ==
    IF s.triggered /\ ~s.cmdDone /\ s.awaitingCommand
    THEN BuildEvent(WithEventInput(s, in))
    ELSE s

MainEventStep(Inputs) ==
    /\ pc = "event"
    /\ \E in \in Inputs :
          Commit([MainEventSection(St, in) EXCEPT !.pc = "output"])

MainOutputStep ==
    /\ pc = "output"
    /\ Commit([MainOutput(St) EXCEPT !.pc = "timeout"])

MainTimeoutStep ==
    /\ pc = "timeout"
    /\ Commit([MainTimeout(St) EXCEPT !.pc = "command"])

(* Main loop, command part: no frame is waiting, or the host has sent one *)
MainCommandStep(Frames, max) ==
    /\ pc = "command"
    /\ \/ Commit([MainCommand(St, <<>>) EXCEPT !.pc = "house"])
       \/ /\ nFrames < max
          /\ nDataReady = 0
          /\ \E f \in Frames :
                Commit([MainCommand(St, f) EXCEPT !.pc = "house",
                                                  !.nFrames = nFrames + 1])

MainHousekeepingStep ==
    /\ pc = "house"
    /\ Commit([MainHousekeeping(St) EXCEPT !.pc = "event"])

(***************************************************************************)
(* Spec: the GO interrupt, the main loop and host commands                 *)
(***************************************************************************)
HostFrames ==
    {Frame(CMD_TRIGGER, 1), Frame(1, 1), Frame(0, 1), Frame(CMD_TRG_STATUS, 0),
     Frame(CMD_END_RUN, 0)}

MainEvent == MainEventStep({QuietEvent})

MainCmd == MainCommandStep(HostFrames, MaxFrames)

Next ==
    \/ GO
    \/ Tick
    \/ MainEvent
    \/ MainOutputStep
    \/ MainTimeoutStep
    \/ MainCmd
    \/ MainHousekeepingStep

Spec == Init /\ [][Next]_vars

(***************************************************************************)
(* Whole commands: states the machine reaches when the host sends commands  *)
(***************************************************************************)
(* One iteration of the main loop, reading frame f (<<>> when none waits) *)
Iteration(s, f) ==
    MainHousekeeping(
        MainCommand(MainTimeout(MainOutput(MainEventSection(s, QuietEvent))), f))

(* One iteration per frame, the first half of the frames first *)
RECURSIVE RunFrames(_, _)
RunFrames_Rest(ran, frames) ==
    IF Computed(ran) THEN RunFrames(ran, frames) ELSE ran

RunFrames(s, frames) ==
    IF Len(frames) = 0 THEN s
    ELSE IF Len(frames) = 1 THEN Iteration(s, frames[1])
    ELSE RunFrames_Rest(RunFrames(s, SubSeq(frames, 1, Len(frames) \div 2)),
                        SubSeq(frames, Len(frames) \div 2 + 1, Len(frames)))

(* The frames of command cmd with data bytes data *)
CommandFrames(cmd, data) ==
    <<Frame(cmd, Len(data))>> \o [i \in 1..Len(data) |-> Frame(data[i], i)]

(* The state after the host has sent the command and the loop has come round
   to its output section once more *)
AfterCommand(s, cmd, data) ==
    Iteration(RunFrames(s, CommandFrames(cmd, data)), <<>>)

(***************************************************************************)
(* SpecCmd: command frames with copies that may disagree                   *)
(***************************************************************************)
(* Three valid, pairwise different 9-byte copies: "return trigger status",
   "end run", and the first frame of "enable or disable the trigger" *)
TripleCopies ==
    {FrameCopy(CMD_TRG_STATUS, AddressByte(0)), FrameCopy(CMD_END_RUN, AddressByte(0)),
     FrameCopy(CMD_TRIGGER, AddressByte(1))}

TripledFrames ==
    {c[1] \o c[2] \o c[3] \o <<CH_CR, CH_LF>> :
        c \in TripleCopies \X TripleCopies \X TripleCopies}

(* A frame whose three copies are pairwise different *)
BadFrame ==
    FrameCopy(CMD_TRG_STATUS, AddressByte(0)) \o FrameCopy(CMD_END_RUN, AddressByte(0))
        \o FrameCopy(CMD_TRIGGER, AddressByte(1)) \o <<CH_CR, CH_LF>>

(* The error log is empty, one short of full, or full: the states after the
   host has sent 0, MXERR - 1 or MXERR frames that the check rejected *)
InitCmd ==
    \E k \in {0, MXERR - 1, MXERR} :
        InitFrom(RunFrames(Boot, [i \in 1..k |-> BadFrame]))

CmdFrame == MainCommandStep(TripledFrames, MaxCmdFrames)

NextCmd ==
    \/ MainEvent
    \/ MainOutputStep
    \/ MainTimeoutStep
    \/ CmdFrame
    \/ MainHousekeepingStep

SpecCmd == InitCmd /\ [][NextCmd]_vars

(***************************************************************************)
(* SpecTof: TOF hits arrive around a trigger                                *)
(***************************************************************************)
(* Shift-register words of the TOF chip.  Channel A: a hit, and a hit taken
   just before the reference clock rolled over.  Channel B: a hit, and a hit
   two reference clocks later. *)
TofWordsA == {[ref |-> 0, stop |-> 100], [ref |-> 60000, stop |-> 0]}

TofWordsB == {[ref |-> 0, stop |-> 100], [ref |-> 2, stop |-> 0]}

(* The main loop reads the TOF buffers and the clock in its event section
   only, so the hits and ticks that arrive between two event sections are
   taken when the loop stands before that section. *)
(* The host has enabled the trigger *)
InitTof == InitFrom(AfterCommand(Boot, CMD_TRIGGER, <<1>>))

TofA ==
    /\ nHits < MaxTofHits
    /\ pc = "event"
    /\ \E AT \in TofWordsA : Commit([Store_A(St, AT) EXCEPT !.nHits = nHits + 1])

TofB ==
    /\ nHits < MaxTofHits
    /\ pc = "event"
    /\ \E BT \in TofWordsB : Commit([Store_B(St, BT) EXCEPT !.nHits = nHits + 1])

(* The 5 ms clock moves on by one tick *)
TofTick ==
    /\ nTicks < MaxTofTicks
    /\ pc = "event"
    /\ Commit([AdvanceTime(St, 1) EXCEPT !.nTicks = nTicks + 1])

(* The rest of the main loop when the host is silent *)
TofGO == GOStep(MaxTofGO)

MainIdleStep ==
    /\ pc = "timeout"
    /\ Commit([MainHousekeeping(MainCommand(MainTimeout(St), <<>>)) EXCEPT !.pc = "event"])

NextTof ==
    \/ TofA
    \/ TofB
    \/ TofTick
    \/ TofGO
    \/ MainEvent
    \/ MainOutputStep
    \/ MainIdleStep

SpecTof == InitTof /\ [][NextTof]_vars

(***************************************************************************)
(* SpecTkr: events of a run that reads the tracker                          *)
(***************************************************************************)
(* The tracker's answer "data ready" to the status poll *)
PollReady == <<8, TKR_HOUSE_DATA, 2, 0, 0, 0, 87, 89, 15>>

(* An event packet of one board: trigger count 1, then the board's hit list *)
EventOf(hitList) == <<5, TKR_EVT_DATA, 0, 1, 0, 1>> \o hitList

(* A hit list of 4 bytes from the board that reports layer lyr *)
BoardOf(lyr) == <<4, 231, lyr, 1, 48>>

(* A hit list of MAX_TKR_BOARD_BYTES bytes from layer 0 *)
BigBoard == <<MAX_TKR_BOARD_BYTES, 231, 0>> \o [i \in 1..(MAX_TKR_BOARD_BYTES - 2) |-> 0]

TrackerAnswers(rx, mfail) ==
    [daqDone |-> TRUE, mfail |-> mfail, rx |-> rx, rxLate |-> <<>>, ub |-> 0]

(* What the tracker sends for one event: the board in its place, the board
   reporting layer 1, nothing at all, a hit list too long for the record,
   and the board in its place when the allocation fails *)
TrackerInputs ==
    {TrackerAnswers(PollReady \o EventOf(BoardOf(0)), {}),
     TrackerAnswers(PollReady \o EventOf(BoardOf(1)), {}),
     TrackerAnswers(<<>>, {}),
     TrackerAnswers(PollReady \o EventOf(BigBoard), {}),
     TrackerAnswers(PollReady \o EventOf(BoardOf(0)), {1})}

(* The host has started a run that reads the tracker; the tracker did not
   answer the trigger-enable command *)
InitTkr == InitFrom(AfterCommand(Boot, CMD_START_RUN, <<0, 1, 1>>))

TkrEvent == MainEventStep(TrackerInputs)

TkrCmd == MainCommandStep({Frame(CMD_LOGIC_RESET, 0)}, MaxCmdFrames)

NextTkr ==
    \/ GO
    \/ TkrEvent
    \/ MainOutputStep
    \/ MainTimeoutStep
    \/ TkrCmd
    \/ MainHousekeepingStep

SpecTkr == InitTkr /\ [][NextTkr]_vars

(***************************************************************************)
(* Event records in the output stream                                      *)
(***************************************************************************)
(* Offset of the payload of an output packet: the 6-byte header and the echo
   of the command data *)
PayloadAt(pkt) == 6 + pkt[6]

(* An event record: packet type DD and a payload that starts with "ZERO" *)
IsEvent(pkt) ==
    /\ pkt[5] = 221
    /\ Len(pkt) >= PayloadAt(pkt) + 10
    /\ SubSeq(pkt, PayloadAt(pkt) + 1, PayloadAt(pkt) + 4) = <<90, 69, 82, 79>>

(* The accepted-event count an event record carries (payload bytes 6..9) *)
EventCountOf(pkt) ==
    LET b == PayloadAt(pkt)
    IN  ((pkt[b + 7] * 256 + pkt[b + 8]) * 256 + pkt[b + 9]) * 256 + pkt[b + 10]

EventsWithCount(k) ==
    {i \in DOMAIN usbOut : IsEvent(usbOut[i]) /\ EventCountOf(usbOut[i]) = k}

(* An accepted trigger whose event has not yet been handed to the transport *)
EventPending == triggered \/ eventDataReady

(* The completed command is "disable trigger": code 3B with data byte 0 *)
IsDisableTrigger(cmd, data) == cmd = CMD_TRIGGER /\ data[0] = 0

(***************************************************************************)
(* Claims about triggers and command gating (specification Spec)          *)
(***************************************************************************)
(* C1: every accepted GO is answered by exactly one event record that carries
   its accepted-event count.  A GO is accepted only with the trigger enabled,
   and the trigger is to be re-enabled only after the event of the previous
   GO went out: so once GO number cntGO is accepted, each earlier count k has
   exactly one event record.  (No host of Spec resets the counters.) *)
C1_EachGoOneEvent ==
    \A k \in 1..(cntGO - 1) : Cardinality(EventsWithCount(k)) = 1

(* C2: from the acceptance of a GO until its event packet has been handed to
   the transport, the trigger-enable bit is clear. *)
C2_TriggerHeldClear == EventPending => ~isTriggerEnabled(St)

(* C3: a command dispatched with the trigger enabled goes to its handler if
   and only if it is disable-trigger or end-run. *)
C3_GateDisableOrEndRun ==
    [][(nDispatch' # nDispatch /\ isTriggerEnabled(St))
         => (dispatch'.ran <=> (IsDisableTrigger(command', cmdData')
                                \/ command' = CMD_END_RUN))]_vars

(* C4: between the acceptance of a GO and the end of the transmission of its
   event, no handler other than disable-trigger and end-run runs. *)
C4_NoHandlerWhilePending ==
    [][(EventPending /\ nDispatch' # nDispatch /\ dispatch'.ran)
         => (IsDisableTrigger(command', cmdData') \/ command' = CMD_END_RUN)]_vars

(* C5: a command other than disable-trigger and end-run that completes with
   the trigger enabled adds exactly one CommandIgnored record and prepares no
   response bytes. *)
C5_IgnoredOnce ==
    [][(nDispatch' # nDispatch /\ isTriggerEnabled(St)
          /\ ~IsDisableTrigger(command', cmdData') /\ command' # CMD_END_RUN)
         => (/\ nErrors' = nErrors + 1
             /\ errors'[nErrors].errorCode = ERR_CMD_IGNORE
             /\ nDataReady' = 0)]_vars

(***************************************************************************)
(* Claims about the triplication of command frames (specification SpecCmd) *)
(***************************************************************************)
(* The three 9-byte copies of a 27-byte frame *)
CopiesOf(f) == <<SubSeq(f, 1, 9), SubSeq(f, 10, 18), SubSeq(f, 19, 27)>>

TwoAgree(f) ==
    \/ CopiesOf(f)[1] = CopiesOf(f)[2]
    \/ CopiesOf(f)[1] = CopiesOf(f)[3]
    \/ CopiesOf(f)[2] = CopiesOf(f)[3]

(* The copy at least one other copy agrees with, in the order 1=2, 1=3, 2=3 *)
AgreeingCopy(f) ==
    IF CopiesOf(f)[1] = CopiesOf(f)[2] \/ CopiesOf(f)[1] = CopiesOf(f)[3]
    THEN CopiesOf(f)[1]
    ELSE CopiesOf(f)[2]

(* The byte that two hexadecimal characters spell *)
HexByte(hi, lo) ==
    CHOOSE d \in 0..255 : hi = HexChar(d \div 16) /\ lo = HexChar(d % 16)

DataByteOf(copy) == HexByte(copy[2], copy[3])

ByteCountOf(copy) == ByteCount(HexByte(copy[4], copy[5]))

(* The main loop has read a frame in this step *)
FrameRead == nFrames' = nFrames + 1

(* C9: a frame is accepted if and only if at least two of its copies are
   identical, and what is decoded is the agreeing copy: read with no command
   in progress it starts the command the agreeing copy spells; read with a
   command in progress it stores the data byte the agreeing copy spells.  A
   frame that is not accepted changes nothing in the parser. *)
C9_MajorityAccepted ==
    [][FrameRead =>
         IF TwoAgree(rxFrame')
         THEN IF awaitingCommand
              THEN /\ ~awaitingCommand'
                   /\ command' = DataByteOf(AgreeingCopy(rxFrame'))
                   /\ nDataBytes' = ByteCountOf(AgreeingCopy(rxFrame'))
              ELSE ByteCountOf(AgreeingCopy(rxFrame')) # 0 =>
                      /\ dCnt' = dCnt + 1
                      /\ cmdData'[ByteCountOf(AgreeingCopy(rxFrame')) - 1]
                             = DataByteOf(AgreeingCopy(rxFrame'))
         ELSE UNCHANGED <<awaitingCommand, cmdDone, command, nDataBytes, dCnt,
                          cmdData, nDispatch>>]_vars

(* C9 witness: a frame whose copies 2 and 3 agree and differ from copy 1 has
   started the command that copy 2 spells. *)
C9_Witness ==
    /\ nFrames > 0
    /\ CopiesOf(rxFrame)[2] = CopiesOf(rxFrame)[3]
    /\ CopiesOf(rxFrame)[1] # CopiesOf(rxFrame)[2]
    /\ nFrames = 1
    /\ command = DataByteOf(CopiesOf(rxFrame)[2])
    /\ command # DataByteOf(CopiesOf(rxFrame)[1])

(* C10 as the specification states it: a frame with pairwise different copies
   adds exactly one BadCommand record. *)
C10_OneBadCommandAlways ==
    [][(FrameRead /\ ~TwoAgree(rxFrame'))
         => (/\ nErrors' = nErrors + 1
             /\ errors'[nErrors].errorCode = ERR_BAD_CMD)]_vars

(* C10: a frame with pairwise different copies adds exactly one BadCommand
   record when the log holds fewer than MXERR records and none when it is
   full; no handler runs and the parser state is unchanged. *)
C10_RejectedFrame ==
    [][(FrameRead /\ ~TwoAgree(rxFrame'))
         => (/\ IF nErrors < MXERR
                THEN /\ nErrors' = nErrors + 1
                     /\ errors'[nErrors].errorCode = ERR_BAD_CMD
                     /\ \A i \in 0..(MXERR - 1) : i # nErrors => errors'[i] = errors[i]
                ELSE UNCHANGED <<errors, nErrors>>
             /\ UNCHANGED <<awaitingCommand, cmdDone, command, nDataBytes, dCnt,
                            cmdData, nDispatch, dispatch, usbOut, nDataReady>>)]_vars

(* C10 witness: a frame with pairwise different copies was read while a
   command was in progress, and its BadCommand record is the last of the log. *)
C10_Witness ==
    /\ nFrames > 1
    /\ ~TwoAgree(rxFrame)
    /\ ~awaitingCommand
    /\ nErrors > 0
    /\ errors[nErrors - 1].errorCode = ERR_BAD_CMD
    /\ pc = "house"

(***************************************************************************)
(* Claims about the time of flight (specification SpecTof)                 *)
(***************************************************************************)
(* An event is built in this step of the main loop *)
EventBuilt ==
    /\ pc = "event" /\ pc' = "output"
    /\ triggered /\ ~cmdDone /\ awaitingCommand

(* The time-of-flight field of the event record in dataOut, as signed 16 bit *)
TofField(out) ==
    IF out[35] * 256 + out[36] >= 32768
    THEN out[35] * 256 + out[36] - 65536
    ELSE out[35] * 256 + out[36]

TrgTag == timeStamp % 65536

InWindow(clk) == clk = TrgTag \/ clk = TrgTag - 1

(* The pairs of filled entries in the trigger window whose clock tags differ
   by at most 1 *)
QualifyingPairs ==
    {p \in (0..(TOFMAX_EVT - 1)) \X (0..(TOFMAX_EVT - 1)) :
        /\ tofA.filled[p[1]] /\ InWindow(tofA.clkCnt[p[1]])
        /\ tofB.filled[p[2]] /\ InWindow(tofB.clkCnt[p[2]])
        /\ tofA.clkCnt[p[1]] - tofB.clkCnt[p[2]] \in {-1, 0, 1}}

FullTime(w) == w.ref * 8333 + w.stop

(* B minus A *)
PlainDifference(p) ==
    FullTime(tofB.shiftReg[p[2]]) - FullTime(tofA.shiftReg[p[1]])

RolledOver(late, early) == late.ref > 49152 /\ early.ref < 16384

(* B minus A, after the reference-clock rollover offset *)
AdjustedDifference(p) ==
    IF RolledOver(tofA.shiftReg[p[1]], tofB.shiftReg[p[2]])
    THEN PlainDifference(p) + 500000000
    ELSE IF RolledOver(tofB.shiftReg[p[2]], tofA.shiftReg[p[1]])
    THEN PlainDifference(p) - 500000000
    ELSE PlainDifference(p)

Magnitude(x) == IF x < 0 THEN 0 - x ELSE x

ReportablePairs == {p \in QualifyingPairs : Magnitude(AdjustedDifference(p)) < 32767}

(* C7 as the specification states it: the reported time of flight is the
   plain difference refCount*8333 + stopCount of the qualifying pair with
   the least absolute difference, whatever its size. *)
C7_PlainMinimumReported ==
    [][(EventBuilt /\ QualifyingPairs # {})
         => \E p \in QualifyingPairs :
               /\ TofField(dataOut') = PlainDifference(p)
               /\ \A q \in QualifyingPairs :
                     Magnitude(PlainDifference(p)) <= Magnitude(PlainDifference(q))]_vars

(* C7: the reported time of flight is the difference, after the rollover
   offset, of a qualifying pair with the least absolute difference among the
   qualifying pairs whose difference is below 32767 in magnitude; when no
   qualifying pair has such a difference, 32767 is reported. *)
C7_MinimumReported ==
    [][EventBuilt
         => IF ReportablePairs = {}
            THEN TofField(dataOut') = 32767
            ELSE \E p \in ReportablePairs :
                    /\ TofField(dataOut') = AdjustedDifference(p)
                    /\ \A q \in ReportablePairs :
                          Magnitude(AdjustedDifference(p))
                              <= Magnitude(AdjustedDifference(q))]_vars

(* C7 witness: an event was built from one channel-A hit and two channel-B
   hits, and it reports the smaller of the two time differences. *)
C7_Witness ==
    /\ eventDataReady
    /\ pc = "output"
    /\ dataOut[41] = 1
    /\ dataOut[42] = 2
    /\ TofField(dataOut) = 0
    /\ dataOut[43] * 256 + dataOut[44] = 0
(* C8: when no qualifying pair exists for the trigger, the event that is
   built carries 32767 as its time of flight, and the next output section
   sends it to the host as an event record. *)
C8_NoPairSentinel ==
    [][/\ (EventBuilt /\ QualifyingPairs = {})
            => (TofField(dataOut') = 32767 /\ eventDataReady' /\ nDataReady' > 0)
       /\ (pc = "output" /\ pc' = "timeout" /\ eventDataReady)
            => /\ Len(usbOut') = Len(usbOut) + 1
               /\ IsEvent(usbOut'[Len(usbOut')])
               /\ \A i \in 0..(nDataReady - 1) :
                     usbOut'[Len(usbOut')][PayloadAt(usbOut'[Len(usbOut')]) + 1 + i]
                         = dataOut[i]]_vars

(* C8 witness: an event was sent with both TOF buffers empty at the trigger,
   and its record carries the time of flight 7F FF and no candidates. *)
C8_Witness ==
    /\ pc = "timeout"
    /\ nHits = 0
    /\ Len(usbOut) > 0
    /\ cntGO = 1
    /\ IsEvent(usbOut[Len(usbOut)])
    /\ usbOut[Len(usbOut)][PayloadAt(usbOut[Len(usbOut)]) + 36] = 127
    /\ usbOut[Len(usbOut)][PayloadAt(usbOut[Len(usbOut)]) + 37] = 255
    /\ usbOut[Len(usbOut)][PayloadAt(usbOut[Len(usbOut)]) + 42] = 0
    /\ usbOut[Len(usbOut)][PayloadAt(usbOut[Len(usbOut)]) + 43] = 0

(***************************************************************************)
(* Claims about the hit-list buffers (specification SpecTkr)               *)
(***************************************************************************)
(* Some board slot still holds the buffer for release *)
Owned(p) ==
    \E brd \in 0..(MAX_TKR_BOARDS - 1) :
        tkrData.boardHits[brd].hitList = p /\ tkrData.boardHits[brd].nBytes > 0

(* C6: every hit-list buffer is freed exactly once: between the sections of
   the main loop no buffer has been freed twice, and a buffer not yet freed
   is still held by a board slot that will release it. *)
C6_ReleasedOnce ==
    \A p \in DOMAIN heap :
        /\ heap[p].frees <= 1
        /\ heap[p].frees = 0 => Owned(p)

(***************************************************************************)
(* SpecParse: multi-byte commands, frame by frame                          *)
(***************************************************************************)
(* A frame for the board at another address *)
ForeignFrame ==
    LET c == FrameCopy(15, AddressByteOf(eventPSOCaddress - 1, 2))
    IN  c \o c \o c \o <<CH_CR, CH_LF>>

(* The four frames of "load threshold DAC channel 5 with 0F05", a frame with
   byte count (or byte index) 0, and a frame for another board; the host
   sends them in any order, so that an index is skipped or repeated *)
ParseFrames ==
    {Frame(CMD_LOAD_DAC, 3), Frame(5, 1), Frame(15, 2), Frame(5, 3),
     Frame(CMD_VERSION, 0), ForeignFrame}

(* What the I2C bus does when loadDAC is called: no error, no acknowledge of
   the start, no acknowledge of the second byte *)
I2cOutcomes ==
    {[failAt |-> 0, rc |-> 0], [failAt |-> 1, rc |-> 2], [failAt |-> 3, rc |-> 2]}

ParseCmd ==
    /\ pc = "command"
    /\ \/ Commit([MainCommand(St, <<>>) EXCEPT !.pc = "house"])
       \/ /\ nFrames < MaxParseFrames
          /\ nDataReady = 0
          /\ \E f \in ParseFrames, bus \in I2cOutcomes :
                Commit([MainCommand([St EXCEPT !.in_i2c = bus], f)
                           EXCEPT !.pc = "house", !.nFrames = nFrames + 1])

NextParse ==
    \/ MainEvent
    \/ MainOutputStep
    \/ MainTimeoutStep
    \/ ParseCmd
    \/ MainHousekeepingStep

SpecParse == Init /\ [][NextParse]_vars

(***************************************************************************)
(* Claims about multi-byte commands (specification SpecParse)              *)
(***************************************************************************)
(* The board address a 9-byte copy carries: bits 2..5 of its address byte *)
AddressOf(copy) == (HexByte(copy[4], copy[5]) \div 4) % 16

(* The frame read in this step is accepted and addressed to this board *)
AcceptedHere(f) ==
    /\ TwoAgree(f)
    /\ AgreeingCopy(f)[1] = CH_S
    /\ AgreeingCopy(f)[9] = CH_W
    /\ AddressOf(AgreeingCopy(f)) = eventPSOCaddress

(* The frame read in this step is accepted and addressed to another board *)
AcceptedElsewhere(f) ==
    /\ TwoAgree(f)
    /\ AgreeingCopy(f)[1] = CH_S
    /\ AgreeingCopy(f)[9] = CH_W
    /\ AddressOf(AgreeingCopy(f)) # eventPSOCaddress

(* C11: a command is dispatched only when the frames of this command have
   supplied a data byte for every byte index 1..n of its declared count n. *)
C11_AllBytesSupplied ==
    [][nDispatch' # nDispatch => supplied' = 1..nDataBytes']_vars

(* C12: with a command in progress, a continuation frame with byte index 0
   logs one BadByte record and aborts the command: the parser awaits a new
   command, the partial command is discarded, and no handler is dispatched. *)
C12_BadByteAborts ==
    [][(FrameRead /\ ~awaitingCommand /\ AcceptedHere(rxFrame')
          /\ ByteCountOf(AgreeingCopy(rxFrame')) = 0)
         => (/\ nErrors' = nErrors + 1
             /\ errors'[nErrors].errorCode = ERR_BAD_BYTE
             /\ awaitingCommand'
             /\ ~cmdDone'
             /\ nDataBytes' = 0
             /\ nDispatch' = nDispatch)]_vars

(* The last frame of the well-formed command "load DAC channel 5 with 0F05"
   is read in this step: the frames for the byte indices 1 and 2 have come,
   once each, and the frame for index 3 comes now *)
LoadCh5Completes ==
    /\ FrameRead
    /\ rxFrame' = Frame(5, 3)
    /\ ~isTriggerEnabled(St)
    /\ ~awaitingCommand
    /\ command = CMD_LOAD_DAC
    /\ nDataBytes = 3
    /\ supplied = {1, 2}
    /\ dCnt = 2
    /\ cmdData[0] = 5
    /\ cmdData[1] = 15

(* C14: the well-formed four-frame command that loads threshold DAC channel 5
   with 0F05, received with the trigger disabled, is dispatched once and makes
   one call of loadDAC for the channel-5 address; when the call succeeds the
   DAC has taken the bytes 0F and 05 and the error log is unchanged.  No step
   makes more than one call, and a call is made only when a frame is read. *)
C14_OneDacLoad ==
    /\ [][LoadCh5Completes
            => (/\ nDispatch' = nDispatch + 1
                /\ dispatch' = [code |-> CMD_LOAD_DAC, ran |-> TRUE]
                /\ Len(i2cLog') = Len(i2cLog) + 1
                /\ i2cLog'[Len(i2cLog')].address = I2C_Address_DAC_Ch5
                /\ i2cLog'[Len(i2cLog')].stopped
                     => (/\ i2cLog'[Len(i2cLog')].bytes = <<15, 5>>
                         /\ UNCHANGED <<errors, nErrors>>))]_vars
    /\ [][Len(i2cLog') # Len(i2cLog)
            => (FrameRead /\ Len(i2cLog') = Len(i2cLog) + 1)]_vars

(* C14 witness: the four frames have been read and nothing else; the bus has
   seen one transaction, 0F 05 to the channel-5 DAC, and the log is empty. *)
C14_Witness ==
    /\ nFrames = 4
    /\ nDispatch = 1
    /\ rxFrame = Frame(5, 3)
    /\ i2cLog = <<[address |-> I2C_Address_DAC_Ch5, bytes |-> <<15, 5>>,
                   stopped |-> TRUE]>>
    /\ nErrors = 0

(* C15: an accepted frame addressed to another board starts no command, adds
   no data byte, dispatches no handler and logs no fault: the state of the
   command parser is unchanged. *)
C15_ForeignFrameIgnored ==
    [][(FrameRead /\ AcceptedElsewhere(rxFrame'))
         => UNCHANGED <<awaitingCommand, cmdDone, command, nDataBytes, dCnt,
                        cmdData, supplied, cmdStartTime, cmdCount, nDispatch,
                        dispatch, errors, nErrors, nDataReady, dataOut,
                        i2cLog>>]_vars

(* C15 witness: a frame for another board was read with a command in progress
   that has one of its three data bytes, and the command is still in progress. *)
C15_Witness ==
    /\ rxFrame = ForeignFrame
    /\ pc = "house"
    /\ ~awaitingCommand
    /\ command = CMD_LOAD_DAC
    /\ nDataBytes = 3
    /\ dCnt = 1

(***************************************************************************)
(* SpecTimeout: a host that stops in the middle of a command               *)
(***************************************************************************)
(* The first three frames of the four-frame command; read in another order
   they make a shorter command that completes *)
TimeoutFrames == {Frame(CMD_LOAD_DAC, 3), Frame(5, 1), Frame(15, 2)}

(* The hardware clock moves on by TickLen ticks while a command is in progress
   and its time-out has not yet passed.  The main loop reads the clock in its
   time-out section and, for the start time of a command, in its command
   section: what the clock does elsewhere is seen there. *)
TimeoutTick ==
    /\ pc \in {"timeout", "command"}
    /\ ~awaitingCommand
    /\ ~ElapsedOver(time(St), cmdStartTime, TIMEOUT)
    /\ Commit(AdvanceTime(St, TickLen))

TimeoutCmd == MainCommandStep(TimeoutFrames, MaxTimeoutFrames)

(* One section of the main loop *)
MainLoop ==
    \/ MainEvent
    \/ MainOutputStep
    \/ MainTimeoutStep
    \/ TimeoutCmd
    \/ MainHousekeepingStep

NextTimeout == TimeoutTick \/ MainLoop

(* The main loop never stops, and the clock, which is hardware, keeps
   counting however often the loop comes round *)
SpecTimeout ==
    Init /\ [][NextTimeout]_vars /\ WF_vars(MainLoop) /\ SF_vars(TimeoutTick)

(***************************************************************************)
(* Claims about the command time-out (specification SpecTimeout)           *)
(***************************************************************************)
(* The host has stopped sending in the middle of a multi-byte command *)
Stalled == ~awaitingCommand /\ ~cmdDone /\ nFrames = MaxTimeoutFrames

(* C13: when the host stops sending frames in the middle of a multi-byte
   command, the parser eventually awaits a new command again; it gets there
   only by the time-out section, more than TIMEOUT ticks after the first frame
   of the command, with the partial command discarded and no handler run. *)
C13_StalledCommandTimesOut ==
    /\ Stalled ~> awaitingCommand
    /\ [][(Stalled /\ awaitingCommand')
            => (/\ pc = "timeout"
                /\ time(St) - cmdStartTime > TIMEOUT
                /\ nDataBytes' = 0
                /\ ~cmdDone'
                /\ nDispatch' = nDispatch)]_vars

(* C13 witness: the host sent the first frames of the command and stopped; the
   time-out has discarded the command more than TIMEOUT ticks after its start,
   and no handler has run. *)
C13_Witness ==
    /\ nFrames = MaxTimeoutFrames
    /\ awaitingCommand
    /\ nCmdTimeOut = 1
    /\ command = CMD_LOAD_DAC
    /\ nDataBytes = 0
    /\ dCnt = 2
    /\ nDispatch = 0
    /\ time(St) - cmdStartTime > TIMEOUT


(***************************************************************************)
(* SpecGet: calls of getTrackerData                                        *)
(***************************************************************************)
MaxCalls == 2

(* The identifiers the callers of getTrackerData pass: 0 (command 0x10),
   TKR_EVT_DATA, TKR_HOUSE_DATA and TKR_ECHO_DATA *)
ExpectedIds == {0, TKR_EVT_DATA, TKR_HOUSE_DATA, TKR_ECHO_DATA}

(* What the tracker has sent when getTrackerData is called: an event packet
   of declared length 4, one of declared length 5 with one board, a
   housekeeping packet, a packet with an unknown identifier, and nothing *)
GetPackets ==
    {<<4, TKR_EVT_DATA, 0, 1, 0>>,
     EventOf(BoardOf(0)),
     PollReady,
     <<3, 99, 0, 0, 0>>,
     <<>>}

(* The board count is 1 after reset, and 2 once the host has configured two
   boards *)
InitGet ==
    \E n \in {1, 2} : InitFrom([Boot EXCEPT !.numTkrBrds = n])

(* One call getTrackerData(idExpected) on a freshly filled receive FIFO;
   tkrCall keeps the argument, the two header bytes the call read and the
   return code *)
GetCall ==
    /\ nCalls < MaxCalls
    /\ \E id \in ExpectedIds, rx \in GetPackets, mfail \in {{}, {1}} :
          LET s == [St EXCEPT !.tkrRx = rx, !.in_mfail = mfail, !.mcnt = 0]
              hdr == tkr_getBytes(NoBytes(s), time(s), 1, 2).vals
              r == getTrackerData(s, id)
          IN  Commit([r.state EXCEPT
                         !.tkrCall = [idExpected |-> id, len |-> hdr[1],
                                      IDcode |-> hdr[2], rc |-> r.rc],
                         !.nCalls = s.nCalls + 1])

NextGet == GetCall

SpecGet == InitGet /\ [][NextGet]_vars

(* The number of records with the given code in the first n of the log *)
CountCode(log, n, wanted) ==
    Cardinality({i \in 0..(n - 1) : log[i].errorCode = wanted})

(* Board slot brd holds the five-byte placeholder hit list *)
IsPlaceholder(data, mem, brd) ==
    /\ data.boardHits[brd].nBytes = 5
    /\ data.boardHits[brd].hitList # NULL
    /\ LET b == mem[data.boardHits[brd].hitList].bytes
       IN  /\ b[0] = 231
           /\ b[1] = brd
           /\ b[2] = 0
           /\ b[4] = 48

(* C16: a call of getTrackerData that reads the event-data identifier with a
   declared length other than 5 leaves a placeholder event whose board count
   is the configured count, and the log has gained exactly one BadLength
   record, whatever identifier the caller expected. *)
C16_BadLengthPlaceholder ==
    [][(nCalls' = nCalls + 1 /\ tkrCall'.IDcode = TKR_EVT_DATA
            /\ tkrCall'.len # 5)
         => (/\ tkrData'.nTkrBoards = numTkrBrds
             /\ \A brd \in 0..(numTkrBrds - 1) :
                   tkrData'.boardHits[brd].hitList # NULL
                       => IsPlaceholder(tkrData', heap', brd)
             /\ CountCode(errors', nErrors', ERR_TKR_BAD_LENGTH)
                  = CountCode(errors, nErrors, ERR_TKR_BAD_LENGTH) + 1)]_vars


(***************************************************************************)
(* The tracker section of an event record                                  *)
(***************************************************************************)
(* Board records brd, ..., n-1 start at pkt[at] and the trailer "FINI"
   follows them: each record is the board index, a length byte, and a hit
   list of that many bytes which begins with E7 and an address byte *)
RECURSIVE BoardRecordsAt(_, _, _, _)
BoardRecordsAt(pkt, at, brd, n) ==
    IF brd = n
    THEN at + 3 <= Len(pkt) /\ SubSeq(pkt, at, at + 3) = <<70, 73, 78, 73>>
    ELSE /\ at + 3 <= Len(pkt)
         /\ pkt[at] = brd
         /\ pkt[at + 1] >= 2
         /\ at + 1 + pkt[at + 1] <= Len(pkt)
         /\ pkt[at + 2] = 231
         /\ BoardRecordsAt(pkt, at + 2 + pkt[at + 1], brd + 1, n)

(* The event record carries the board count at payload byte 51 and the board
   records from payload byte 52 on *)
TrackerSectionOk(pkt, n) ==
    /\ pkt[PayloadAt(pkt) + 52] = n
    /\ BoardRecordsAt(pkt, PayloadAt(pkt) + 53, 0, n)

(* C17: in a run that reads the tracker, every event record handed to the
   output transport has a well-formed tracker section: the configured number
   of board records, for board indices 0, 1, ..., each with a hit list that
   starts with E7 and an address byte and is as long as its length byte
   declares. *)
C17_TrackerSectionWellFormed ==
    \A i \in DOMAIN usbOut :
        IsEvent(usbOut[i]) => TrackerSectionOk(usbOut[i], numTkrBrds)


(***************************************************************************)
(* SpecLog: the error log shared by the main loop and the UART interrupt   *)
(***************************************************************************)
(* isrUART runs between any two instructions of the main loop (outside the
   isr_UART_Disable/Enable bracket of the ring read), so the main loop's
   addError(ERR_BAD_CMD, ...) and its error read-out are taken one access of
   nErrors at a time.  nErrors is not volatile: a later access by the main
   loop uses either the value it read before or the value now in memory. *)
MaxUartFrames == 2
MaxLogFrames == 3

(* The frames the command UART delivers *)
UartFrames == {BadFrame, Frame(CMD_ERRORS, 0)}

(* The frame in place i of a burst: rejected frames and error read-outs in
   turn *)
BurstFrame(i) == IF i % 2 = 1 THEN BadFrame ELSE Frame(CMD_ERRORS, 0)

(* isrUART has taken the n frames BurstFrame(first + 1), ... of a burst *)
RECURSIVE Burst(_, _, _)
Burst(s, n, first) ==
    IF n = 0 THEN s
    ELSE isrUART(Burst(s, n - 1, first), BurstFrame(first + n))

(* The host has sent MXERR - 2 frames by USB that were rejected, and then,
   while the main loop was held up, MX_CMDS frames by the command UART, a
   rejected frame or an error read-out first: the ring is full and the last
   frame has logged ERR_CMD_BUF_OVERFLOW *)
InitLog ==
    \E first \in {0, 1} :
        InitFrom(Burst(RunFrames(Boot, [i \in 1..(MXERR - 2) |-> BadFrame]),
                       MX_CMDS, first))

(* The command UART interrupt takes a frame *)
UartFrame ==
    /\ nUart < MaxUartFrames
    /\ \E f \in UartFrames :
          Commit([isrUART(St, f) EXCEPT !.nUart = nUart + 1])

(* "if (nErrors < MXERR)" of the main loop's addError *)
addError_Test(s, errorCode, val0, val1) ==
    IF s.nErrors < MXERR
    THEN [s EXCEPT !.pc = "addError_store",
                   !.addErrorReg = [busy |-> TRUE, nErrors |-> s.nErrors,
                                    errorCode |-> errorCode, value0 |-> val0,
                                    value1 |-> val1]]
    ELSE [s EXCEPT !.pc = "house"]

(* The three stores "errors[nErrors].x = ..." at index n.  errors[MXERR] lies
   behind the array, where nErrors is declared: the store either lands on
   nErrors (hits) or on memory this model does not hold. *)
addError_Store(s, n, hits) ==
    LET reg == s.addErrorReg
        rec == [errorCode |-> reg.errorCode, value0 |-> reg.value0,
                value1 |-> reg.value1]
    IN  IF n < MXERR THEN [s EXCEPT !.errors[n] = rec, !.pc = "addError_inc"]
        ELSE IF hits THEN [s EXCEPT !.nErrors = reg.errorCode, !.pc = "addError_inc"]
        ELSE [s EXCEPT !.pc = "addError_inc"]

(* "nErrors++" on the value n *)
addError_Inc(s, n) ==
    [s EXCEPT !.nErrors = U8(n + 1), !.nLogged = s.nLogged + 1,
              !.addErrorReg = Boot.addErrorReg, !.pc = "house"]

(* case '\x03' up to and including "nDataReady = nErrors*3": before is the
   state when the frame is parsed, after the state when the whole handler has
   run *)
ReadErrors_Entered(before, after) ==
    [after EXCEPT !.errors = before.errors, !.nErrors = before.nErrors,
                  !.dataOut = before.dataOut, !.nReported = before.nReported,
                  !.pc = "readErrors_copy"]

(* "for (int i=0; i<nErrors; ++i) { dataOut[i*3] = ... } nErrors = 0;" with
   the loop running to n *)
ReadErrors_Copy(s, n) ==
    [s EXCEPT !.dataOut = [k \in 0..(MAX_DATA_OUT - 1) |->
                             IF k < 3 * n
                             THEN CASE k % 3 = 0 -> ErrorAt(s, k \div 3).errorCode
                                    [] k % 3 = 1 -> ErrorAt(s, k \div 3).value0
                                    [] OTHER -> ErrorAt(s, k \div 3).value1
                             ELSE s.dataOut[k]],
              !.nErrors = 0,
              !.nReported = s.nReported + (s.nDataReady \div 3),
              !.pc = "house"]

(* The frame completes the error read-out command, which is dispatched on a
   log that holds records *)
ReadsErrors(before, after) ==
    /\ before.nErrors # 0
    /\ after.nDispatch = before.nDispatch + 1
    /\ after.dispatch = [code |-> CMD_ERRORS, ran |-> TRUE]

(* The command section takes the next frame from the ring *)
LogCmd_Frame(s, buffer) ==
    LET t == Triplication(buffer)
        after == ParseFrame(s, buffer)
    IN  IF t.badCMD THEN addError_Test(s, ERR_BAD_CMD, t.val0, t.val1)
        ELSE IF ReadsErrors(s, after) THEN ReadErrors_Entered(s, after)
        ELSE [after EXCEPT !.pc = "house"]

(* Main loop, command part, reading the command UART's ring *)
LogCmd ==
    /\ pc = "command"
    /\ IF nDataReady = 0 /\ cmdReadPtr < MX_CMDS
       THEN /\ nFrames < MaxLogFrames
            /\ Commit([LogCmd_Frame(UartRead(St), cmd_buffer[cmdReadPtr].buf)
                          EXCEPT !.nFrames = nFrames + 1])
       ELSE Commit([MainCommand(St, <<>>) EXCEPT !.pc = "house"])

LogStore ==
    /\ pc = "addError_store"
    /\ \E n \in {addErrorReg.nErrors, nErrors}, hits \in BOOLEAN :
          Commit(addError_Store(St, n, hits))

LogInc ==
    /\ pc = "addError_inc"
    /\ \E n \in {addErrorReg.nErrors, nErrors} :
          Commit(addError_Inc(St, n))

LogCopy ==
    /\ pc = "readErrors_copy"
    /\ \E n \in {nDataReady \div 3, nErrors} :
          Commit(ReadErrors_Copy(St, n))

NextLog ==
    \/ UartFrame
    \/ MainEvent
    \/ MainOutputStep
    \/ MainTimeoutStep
    \/ LogCmd
    \/ LogStore
    \/ LogInc
    \/ LogCopy
    \/ MainHousekeepingStep

SpecLog == InitLog /\ [][NextLog]_vars

(* C18: the error log never holds more than MXERR records, also when the
   command UART's interrupt appends a record while the main loop is in the
   middle of appending one. *)
C18_LogBounded == nErrors <= MXERR


(* The error read-out, entered on a log that holds records, finishes: the
   loop has run and nErrors is set to 0 *)
DrainFinishes == pc = "readErrors_copy" /\ pc' = "house"

(* C19: the error read-out is atomic with respect to the command UART's
   interrupt: every record the read-out removes from the log is in its
   response, so that each record appended is reported by exactly one
   read-out, also a record the interrupt appends while the read-out copies. *)
C19_DrainAtomic ==
    [][DrainFinishes
         => (/\ nErrors' = 0
             /\ nDataReady' = 3 * nErrors
             /\ nReported' = nReported + nErrors
             /\ \A i \in 0..(nErrors - 1) :
                   /\ dataOut'[3 * i] = ErrorAt(St, i).errorCode
                   /\ dataOut'[3 * i + 1] = ErrorAt(St, i).value0
                   /\ dataOut'[3 * i + 2] = ErrorAt(St, i).value1)]_vars


(***************************************************************************)
(* SpecDrain: error read-outs by the main loop alone                       *)
(***************************************************************************)
MaxDrainFrames == 3

(* The host has sent no, two or MXERR frames that were rejected *)
InitDrain ==
    \E k \in {0, 2, MXERR} :
        InitFrom(RunFrames(Boot, [i \in 1..k |-> BadFrame]))

(* The host sends the error read-out command or a frame that is rejected *)
DrainFrame ==
    MainCommandStep({Frame(CMD_ERRORS, 0), BadFrame}, MaxDrainFrames)

NextDrain ==
    \/ MainEvent
    \/ MainOutputStep
    \/ MainTimeoutStep
    \/ DrainFrame
    \/ MainHousekeepingStep

SpecDrain == InitDrain /\ [][NextDrain]_vars

(* The frame read completes the error read-out command and its handler runs *)
DrainRuns ==
    /\ FrameRead
    /\ nDispatch' = nDispatch + 1
    /\ dispatch' = [code |-> CMD_ERRORS, ran |-> TRUE]

(* C20: an error read-out of a log of k >= 1 records answers with the k
   records in the order they were logged, as 3k bytes (code, value0, value1);
   a read-out of an empty log answers with the three bytes 00 EE FF; after
   either the log is empty.  A read-out that follows another with no fault
   logged in between therefore answers 00 EE FF. *)
C20_DrainThenSentinel ==
    [][DrainRuns
         => (/\ nErrors' = 0
             /\ nErrors >= 1
                  => (/\ nDataReady' = 3 * nErrors
                      /\ \A i \in 0..(nErrors - 1) :
                            /\ dataOut'[3 * i] = errors[i].errorCode
                            /\ dataOut'[3 * i + 1] = errors[i].value0
                            /\ dataOut'[3 * i + 2] = errors[i].value1)
             /\ nErrors = 0
                  => (/\ nDataReady' = 3
                      /\ dataOut'[0] = 0
                      /\ dataOut'[1] = 238
                      /\ dataOut'[2] = 255))]_vars

(* C20 witness: two rejected frames were logged and nothing since; the first
   read-out has answered with the two records and the second with 00 EE FF *)
C20_Witness ==
    /\ nLogged = 2
    /\ nErrors = 0
    /\ Len(usbOut) = 2
    /\ usbOut[1] = <<220, 0, 255, 6, CMD_ERRORS, 0,
                     ERR_BAD_CMD, 4, 1, ERR_BAD_CMD, 4, 1, 255, 0, 255>>
    /\ usbOut[2] = <<220, 0, 255, 3, CMD_ERRORS, 0, 0, 238, 255, 255, 0, 255>>


(***************************************************************************)
(* SpecPack: events whose board hit list is long                           *)
(***************************************************************************)
(* A hit list of n bytes from layer 0 *)
HitListOf(n) == <<n, 231, 0>> \o [i \in 1..(n - 2) |-> 0]

(* The hit-list lengths the tracker sends: a short list, the longest lists
   that the packing loop takes and the shortest that it refuses *)
PackLengths == {4, 198, 199, 200}

PackInputs ==
    {TrackerAnswers(PollReady \o EventOf(HitListOf(n)), {}) : n \in PackLengths}

PackEvent == MainEventStep(PackInputs)

NextPack ==
    \/ GO
    \/ PackEvent
    \/ MainOutputStep
    \/ MainIdleStep

SpecPack == InitTkr /\ [][NextPack]_vars

(* C21: event assembly keeps its running length within the output buffer:
   the event in dataOut starts with "ZERO", is at least the 52 bytes of the
   fixed part and the 4 bytes of the trailer long, ends with "FINI", and a
   board that does not fit is logged once as ERR_EVT_TOO_BIG. *)
C21_EventFitsBuffer ==
    [][EventBuilt
         => (/\ nDataReady' >= 56
             /\ [i \in 1..4 |-> dataOut'[i - 1]] = <<90, 69, 82, 79>>
             /\ [i \in 1..4 |-> dataOut'[nDataReady' - 5 + i]] = <<70, 73, 78, 73>>
             /\ CountCode(errors', nErrors', ERR_EVT_TOO_BIG)
                  <= CountCode(errors, nErrors, ERR_EVT_TOO_BIG) + 1)]_vars


(***************************************************************************)
(* SpecWait: the main loop waits for room in the tracker's transmit FIFO   *)
(***************************************************************************)
(* Before it writes the first byte of the status poll the event section
   executes "while (UART_TKR_ReadTxStatus() & UART_TKR_TX_STS_FIFO_FULL);".
   The main loop is taken up to that loop, and from that loop to the end of
   the section; txFifoFull is the status bit, which the hardware sets and
   clears; the later loops of the same form find room at once. *)
MaxWaitTicks == 4

(* The hardware sets or clears the FIFO-full bit *)
TxStatus ==
    \E full \in BOOLEAN :
        /\ full # txFifoFull
        /\ Commit([St EXCEPT !.txFifoFull = full])

(* Time passes while the main loop is in the wait loop: the loop tests the
   bit all the time, so a tick finds it there only while the bit is set *)
WaitTick ==
    /\ pc = "txRoom"
    /\ txFifoFull
    /\ nTicks < MaxWaitTicks
    /\ Commit([AdvanceTime(St, TickLen) EXCEPT !.nTicks = nTicks + 1])

(* The event section up to the wait loop; without tracker read-out, the
   whole section *)
WaitEnter ==
    /\ pc = "event"
    /\ IF triggered /\ ~cmdDone /\ awaitingCommand /\ readTracker
       THEN \E done \in BOOLEAN :
               LET a == Build_Digitizers([St EXCEPT !.in_daqDone = done])
               IN  Commit([a EXCEPT !.pc = "txRoom", !.waitStart = time(a)])
       ELSE Commit([MainEventSection(St, QuietEvent) EXCEPT !.pc = "output"])

(* The FIFO has room: the rest of the event section *)
WaitLeave ==
    /\ pc = "txRoom"
    /\ ~txFifoFull
    /\ \E in \in {TrackerAnswers(<<>>, {}),
                  TrackerAnswers(PollReady \o EventOf(BoardOf(0)), {})} :
          Commit([Build_Poll(WithEventInput(St, in), timeStamp)
                     EXCEPT !.pc = "output"])

WaitLoop ==
    \/ WaitEnter
    \/ WaitLeave
    \/ MainOutputStep
    \/ MainIdleStep

NextWait ==
    \/ GO
    \/ TxStatus
    \/ WaitTick
    \/ WaitLoop

SpecWait == InitTkr /\ [][NextWait]_vars

(* C22: every wait loop of the main loop is left when its tick-counted
   time-out has passed (the longest is TIMEOUT ticks): the main loop is never
   found in a wait loop later than one tick after that. *)
C22_WaitsBounded ==
    pc = "txRoom" => time(St) - waitStart <= TIMEOUT + TickLen


(* The event section when there is no event to build *)
EventSkip ==
    /\ pc = "event"
    /\ ~(triggered /\ ~cmdDone /\ awaitingCommand)
    /\ Commit([St EXCEPT !.pc = "output"])

(* The main loop of SpecPack once the event has been assembled *)
PackLoop ==
    \/ EventSkip
    \/ MainOutputStep
    \/ MainIdleStep

(* SpecPack with a main loop that keeps running *)
SpecPackLive == InitTkr /\ [][NextPack]_vars /\ WF_vars(PackLoop)

(* C23: every accepted GO whose event has been assembled is followed by the
   re-arming of the trigger, which the output section does once the event
   has gone out. *)
C23_EveryGoRearmed == eventDataReady ~> isTriggerEnabled(St)


(***************************************************************************)
(* SpecRing: TOF samples that fill the ring buffers                        *)
(***************************************************************************)
MaxRingHits == 3

(* The first k < TOFMAX_EVT stop events of a channel since its ring was
   cleared, stored at time clk: sample i has reference count 1 and stop
   time i *)
FillTof(tof, k, clk) ==
    [shiftReg |-> [i \in 0..(TOFMAX_EVT - 1) |->
                      IF i < k THEN [ref |-> 1, stop |-> i + 1] ELSE tof.shiftReg[i]],
     clkCnt |-> [i \in 0..(TOFMAX_EVT - 1) |->
                    IF i < k THEN U16(clk) ELSE tof.clkCnt[i]],
     filled |-> [i \in 0..(TOFMAX_EVT - 1) |-> i < k \/ tof.filled[i]],
     ptr |-> k]

(* The trigger is enabled; each channel has had no stop event or
   TOFMAX_EVT - 2 of them, ten ticks ago *)
InitRing ==
    \E ka \in {0, TOFMAX_EVT - 2}, kb \in {0, TOFMAX_EVT - 2} :
        LET s == AfterCommand(Boot, CMD_TRIGGER, <<1>>)
        IN  InitFrom(AdvanceTime([s EXCEPT !.tofA = FillTof(s.tofA, ka, time(s)),
                                           !.tofB = FillTof(s.tofB, kb, time(s))],
                                 10))

RingA ==
    /\ nHits < MaxRingHits
    /\ \E AT \in TofWordsA : Commit([Store_A(St, AT) EXCEPT !.nHits = nHits + 1])

RingB ==
    /\ nHits < MaxRingHits
    /\ \E BT \in TofWordsB : Commit([Store_B(St, BT) EXCEPT !.nHits = nHits + 1])

NextRing ==
    \/ RingA
    \/ RingB
    \/ TofGO
    \/ MainEvent
    \/ MainOutputStep
    \/ MainIdleStep

SpecRing == InitRing /\ [][NextRing]_vars

(* A TOF interrupt runs in this step *)
TofStored == nHits' = nHits + 1

(* The step stores one sample in ring tof at its cursor and changes nothing
   else of the ring *)
StoredAtCursor(tof, after) ==
    /\ after.ptr = (tof.ptr + 1) % TOFMAX_EVT
    /\ after.filled[tof.ptr]
    /\ \A i \in 0..(TOFMAX_EVT - 1) :
          i # tof.ptr => /\ after.shiftReg[i] = tof.shiftReg[i]
                         /\ after.clkCnt[i] = tof.clkCnt[i]
                         /\ after.filled[i] = tof.filled[i]

(* C24: both cursors stay in 0..TOFMAX_EVT-1, and a TOF interrupt stores its
   sample at the cursor of its channel, advances that cursor modulo
   TOFMAX_EVT, and changes no other entry of its channel and nothing of the
   other channel. *)
C24_RingWrites ==
    /\ [](tofA.ptr \in 0..(TOFMAX_EVT - 1) /\ tofB.ptr \in 0..(TOFMAX_EVT - 1))
    /\ [][TofStored
            => \/ StoredAtCursor(tofA, tofA') /\ tofB' = tofB
               \/ StoredAtCursor(tofB, tofB') /\ tofA' = tofA]_vars

(* C24 witness: channel A has had TOFMAX_EVT + 1 stop events and no clear:
   the last one has replaced the oldest entry, at index 0, and the cursor is
   at 1; channel B is as it was *)
C24_Witness ==
    /\ nHits = 3
    /\ cntGO = 0
    /\ tofA.ptr = 1
    /\ tofA.shiftReg[0] = [ref |-> 60000, stop |-> 0]
    /\ tofA.shiftReg[1] = [ref |-> 1, stop |-> 2]
    /\ tofA.shiftReg[TOFMAX_EVT - 1] = [ref |-> 0, stop |-> 100]
    /\ \A i \in 0..(TOFMAX_EVT - 1) : tofA.filled[i]
    /\ tofB = FillTof(EmptyTof, TOFMAX_EVT - 2, tofB.clkCnt[0])


(***************************************************************************)
(* The layout of the event record                                          *)
(***************************************************************************)
(* The event record that the assembly leaves in dataOut *)
RecordBuilt == [i \in 1..nDataReady' |-> dataOut'[i - 1]]

(* The big-endian number in the n bytes of rec after the first at bytes *)
RECURSIVE BigEndian(_, _, _)
BigEndian(rec, at, n) ==
    IF n = 0 THEN 0 ELSE BigEndian(rec, at, n - 1) * 256 + rec[at + n]

(* The board records brd, brd + 1, ..., n - 1 begin after the first at bytes
   of rec, each an address byte, a length byte and as many hit-list bytes,
   and the trailer after them ends the record *)
RECURSIVE BoardsThenTrailer(_, _, _, _)
BoardsThenTrailer(rec, at, brd, n) ==
    IF brd = n
    THEN at + 4 = Len(rec) /\ SubSeq(rec, at + 1, at + 4) = <<70, 73, 78, 73>>
    ELSE /\ at + 2 <= Len(rec)
         /\ rec[at + 1] = brd
         /\ at + 2 + rec[at + 2] <= Len(rec)
         /\ BoardsThenTrailer(rec, at + 2 + rec[at + 2], brd + 1, n)

(* The record has the fields of the event in their order, with nAnalog
   two-byte analog readings after the trigger status *)
LayoutWith(rec, nAnalog) ==
    LET c == Correlate(tofA, tofB, U16(timeStamp))
        tof == 23 + 2 * nAnalog
    IN  /\ Len(rec) >= tof + 21
        /\ SubSeq(rec, 1, 4) = <<90, 69, 82, 79>>
        /\ BigEndian(rec, 4, 2) = runNumber'
        /\ BigEndian(rec, 6, 4) = cntGO'
        /\ BigEndian(rec, 10, 4) = timeStamp
        /\ BigEndian(rec, 14, 4) = cntGO1'
        /\ rec[23] = trgStatus'
        /\ BigEndian(rec, tof, 2) = AsU16(c.dtmin)
        /\ BigEndian(rec, tof + 2, 2) = tkrData'.triggerCount
        /\ rec[tof + 5] = tkrData'.cmdCount
        /\ rec[tof + 6] = tkrData'.trgPattern
        /\ rec[tof + 7] = U8(c.nI)
        /\ rec[tof + 8] = U8(c.nJ)
        /\ BigEndian(rec, tof + 8, 2) = c.aTOF
        /\ BigEndian(rec, tof + 10, 2) = c.bTOF
        /\ BigEndian(rec, tof + 12, 2) = c.aCLK
        /\ BigEndian(rec, tof + 14, 2) = c.bCLK
        /\ BoardsThenTrailer(rec, tof + 17, 0, rec[tof + 17])

(* The error log has room after the assembly and the assembly has logged no
   EventTooBig: the tracker data fit the record *)
TrackerDataFit ==
    /\ nErrors' < MXERR
    /\ CountCode(errors', nErrors', ERR_EVT_TOO_BIG)
          = CountCode(errors, nErrors, ERR_EVT_TOO_BIG)

TaggedEntries(tof, tags) ==
    {i \in 0..(TOFMAX_EVT - 1) : tof.filled[i] /\ tof.clkCnt[i] \in tags}

(* C26 as stated: the channel-A count of the event is the number of filled
   channel-A entries with clock tag T or T+1, the channel-B count the number
   of filled channel-B entries with clock tag T or T-1. *)
C26_LaterTickForA ==
    [][EventBuilt
         => /\ dataOut'[41] = Cardinality(TaggedEntries(tofA, {TrgTag, TrgTag + 1}))
            /\ dataOut'[42] = Cardinality(TaggedEntries(tofB, {TrgTag, TrgTag - 1}))]_vars

(* C26: for a trigger with 16-bit time tag T, the channel-A count of the
   event is the number of filled channel-A entries with clock tag T or T-1,
   and the channel-B count the number of filled channel-B entries with clock
   tag T or T-1. *)
C26_CandidateCounts ==
    [][EventBuilt
         => /\ dataOut'[41] = Cardinality(TaggedEntries(tofA, {TrgTag, TrgTag - 1}))
            /\ dataOut'[42] = Cardinality(TaggedEntries(tofB, {TrgTag, TrgTag - 1}))]_vars

(* C26 witness: an event was built whose only channel-A candidate was stored
   in the tick before the trigger, and it was paired with a channel-B entry *)
C26_Witness ==
    /\ pc = "output"
    /\ eventDataReady
    /\ dataOut[41] = 1
    /\ dataOut[42] = 1
    /\ dataOut[47] * 256 + dataOut[48] = TrgTag - 1


(***************************************************************************)
(* SpecDt: the time difference of one pair of TOF samples                  *)
(***************************************************************************)
(* Reference counts at the limits of the rollover test and of 16 bits, and
   stop counts at the limits of 16 bits *)
DtRefs == {0, 2, 16383, 16384, 49152, 49153, 60000, 65535}

DtStops == {0, 100, 65535}

DtWords == {[ref |-> r, stop |-> st] : r \in DtRefs, st \in DtStops}

(* The trigger is enabled and each channel has stored one sample in the
   current tick *)
InitDt ==
    \E AT \in DtWords, BT \in DtWords :
        InitFrom(Store_B(Store_A(AfterCommand(Boot, CMD_TRIGGER, <<1>>), AT), BT))

NextDt ==
    \/ TofGO
    \/ MainEvent
    \/ MainOutputStep
    \/ MainIdleStep

SpecDt == InitDt /\ [][NextDt]_vars

(* x is a value of a 32-bit signed integer *)
FitsInt32(x) == -2147483647 - 1 <= x /\ x <= 2147483647

(* The full times of pair p, the times less the rollover offset and the
   difference are 32-bit signed values *)
PairFitsInt32(p) ==
    /\ FitsInt32(FullTime(tofA.shiftReg[p[1]]))
    /\ FitsInt32(FullTime(tofB.shiftReg[p[2]]))
    /\ FitsInt32(FullTime(tofA.shiftReg[p[1]]) - 500000000)
    /\ FitsInt32(FullTime(tofB.shiftReg[p[2]]) - 500000000)
    /\ FitsInt32(PlainDifference(p))
    /\ FitsInt32(AdjustedDifference(p))

(* C27: the difference of a candidate pair is the B time less the A time,
   with 500,000,000 taken from the time of the channel whose reference count
   exceeds 49152 when the other's is below 16384; every intermediate value is
   a 32-bit signed value, and the 16-bit time of flight of the event is the
   difference of the pair it reports, or 32767 when no pair has a difference
   below 32767 in magnitude. *)
C27_RolloverDifference ==
    [][EventBuilt
         => /\ \A p \in QualifyingPairs : PairFitsInt32(p)
            /\ IF ReportablePairs = {}
               THEN TofField(dataOut') = 32767
               ELSE \E p \in ReportablePairs :
                       /\ TofField(dataOut') = AdjustedDifference(p)
                       /\ dataOut'[43] * 256 + dataOut'[44] = tofA.shiftReg[p[1]].ref
                       /\ dataOut'[45] * 256 + dataOut'[46] = tofB.shiftReg[p[2]].ref]_vars

(* C27 witness: an event was built from a channel-A sample whose reference
   count 60000 is past the rollover limit and a channel-B sample with
   reference count 0, and it reports the difference 100 - (499980000 -
   500000000) *)
C27_Witness ==
    /\ pc = "output"
    /\ eventDataReady
    /\ dataOut[43] * 256 + dataOut[44] = 60000
    /\ dataOut[45] * 256 + dataOut[46] = 0
    /\ TofField(dataOut) = 20100


(***************************************************************************)
(* SpecCrit: the event section step by step, with the TOF interrupts       *)
(***************************************************************************)
MaxCritHits == 2

MaxCritGO == 2

MaxCritTicks == 1

(* An entry that leaves the interrupts enabled *)
CyEnterCriticalSection_Open(s) == s

(* The interrupts were enabled on entry, so the exit enables them again *)
CyEnterCriticalSection(s) == [s EXCEPT !.intMasked = TRUE]

CyExitCriticalSection(s) == [s EXCEPT !.intMasked = FALSE]

(* The stop events of the two TOF channels *)
CritWord == [ref |-> 0, stop |-> 100]

CritTofA ==
    /\ ~intMasked
    /\ nHits < MaxCritHits
    /\ Commit([Store_A(St, CritWord) EXCEPT !.nHits = nHits + 1,
                                            !.sinceClear = sinceClear + 1])

CritTofB ==
    /\ ~intMasked
    /\ nHits < MaxCritHits
    /\ Commit([Store_B(St, CritWord) EXCEPT !.nHits = nHits + 1,
                                            !.sinceClear = sinceClear + 1])

CritGO == ~intMasked /\ GOStep(MaxCritGO)

CritTick ==
    /\ ~intMasked
    /\ nTicks < MaxCritTicks
    /\ Commit([AdvanceTime(St, 1) EXCEPT !.nTicks = nTicks + 1])

(* The event section up to the start of the TOF search: the time stamp is
   saved, the digitizers and the tracker are read, interrupts are masked *)
CritReadout ==
    /\ pc = "event"
    /\ IF triggered /\ ~cmdDone /\ awaitingCommand
       THEN Commit([CyEnterCriticalSection(
                        Tracker_Data(Poll_Result(Build_Digitizers(
                            WithEventInput([St EXCEPT !.savedStamp = timeStamp],
                                           QuietEvent)))))
                       EXCEPT !.pc = "scanA"])
       ELSE Commit([St EXCEPT !.pc = "output"])

(* The list of TOF hits in channel A *)
CritScanA ==
    /\ pc = "scanA"
    /\ Commit([St EXCEPT !.idxA = CandA(tofA, U16(savedStamp)), !.pc = "pairs"])

(* The loop over the hits of channel B and, for each, over the list of
   channel A; then interrupts are let in again *)
CritPairs ==
    /\ pc = "pairs"
    /\ Commit([CyExitCriticalSection(St)
                  EXCEPT !.corr = Correlate_Pairs(tofA, tofB, idxA,
                                                  CandB(tofB, U16(savedStamp))),
                         !.pc = "pack"])

(* The event record is put into dataOut *)
CritPack ==
    /\ pc = "pack"
    /\ Commit([Finish_Ready(Pack_Record(St, savedStamp, corr)) EXCEPT !.pc = "clear"])

(* The TOF buffers are cleared with interrupts masked *)
CritClear ==
    /\ pc = "clear"
    /\ Commit([CyExitCriticalSection(Finish_Clear(CyEnterCriticalSection(St)))
                  EXCEPT !.sinceClear = 0, !.pc = "output"])

NextCrit ==
    \/ CritTofA
    \/ CritTofB
    \/ CritGO
    \/ CritTick
    \/ CritReadout
    \/ CritScanA
    \/ CritPairs
    \/ CritPack
    \/ CritClear
    \/ MainOutputStep
    \/ MainIdleStep

SpecCrit == InitTof /\ [][NextCrit]_vars

(* C28: from the start of the channel-A scan to the end of the pair search
   no step changes either TOF ring, and what the search finds is what one
   search of the two rings as they are at its end finds. *)
C28_SearchUndisturbed ==
    [][/\ pc \in {"scanA", "pairs"} => (tofA' = tofA /\ tofB' = tofB)
       /\ (pc = "pairs" /\ pc' = "pack")
            => corr' = Correlate(tofA, tofB, U16(savedStamp))]_vars

(* C28 witness: a search has ended that found a pair, with both stop
   events stored before it *)
C28_Witness ==
    /\ pc = "pack"
    /\ ~intMasked
    /\ nHits = 2
    /\ sinceClear = 2
    /\ corr.nI >= 1
    /\ corr.nJ >= 1
    /\ corr.dtmin = 0

(* Every filled flag of the ring is false and its cursor is 0 *)
LogicallyEmpty(tof) ==
    /\ tof.ptr = 0
    /\ \A i \in 0..(TOFMAX_EVT - 1) : ~tof.filled[i]

(* C29: when the clearing ends both TOF rings are logically empty and the
   interrupts are enabled again, and a search counts no more candidates than
   samples were stored since the last clearing. *)
C29_ClearedAfterEvent ==
    [][/\ (pc = "clear" /\ pc' = "output")
            => (LogicallyEmpty(tofA') /\ LogicallyEmpty(tofB') /\ ~intMasked')
       /\ (pc = "pairs" /\ pc' = "pack") => corr'.nI + corr'.nJ <= sinceClear]_vars

(* C29 witness: an event is ready that counted no channel-A candidate,
   although a channel-A sample was stored in the tick of its trigger: the
   sample came after the search and was cleared *)
C29_Witness ==
    /\ pc = "output"
    /\ eventDataReady
    /\ dataOut[41] = 0
    /\ sinceClear = 0
    /\ nHits >= 1
    /\ tofA.shiftReg[0] = CritWord
    /\ tofA.clkCnt[0] = U16(savedStamp)
    /\ LogicallyEmpty(tofA)


(***************************************************************************)
(* A packet of the wrong type (specification SpecGet)                      *)
(***************************************************************************)
(* The call made in this step expected a specific identifier and read
   another *)
WrongTypeRead ==
    /\ nCalls' = nCalls + 1
    /\ tkrCall'.idExpected # 0
    /\ tkrCall'.IDcode # tkrCall'.idExpected

(* The call made in this step has read the two header bytes of its packet
   and no byte more *)
OnlyHeaderRead ==
    \E p \in GetPackets :
        IF Len(p) < 2 THEN tkrRx' = <<>>
        ELSE /\ p[1] = tkrCall'.len
             /\ p[2] = tkrCall'.IDcode
             /\ tkrRx' = SubSeq(p, 3, Len(p))

(* Board slot brd holds the placeholder hit list E7, brd, 00, 01, 30 *)
IsWrongTypePlaceholder(data, mem, brd) ==
    /\ IsPlaceholder(data, mem, brd)
    /\ mem[data.boardHits[brd].hitList].bytes[3] = 1

(* The call made in this step has logged one WrongDataType record; if it
   expected event data it has zeroed the counts, set the configured number of
   boards, returned 54 and read no byte after the header, and every board
   for which Filled holds has the placeholder hit list *)
WrongTypeHandled(Filled(_)) ==
    /\ CountCode(errors', nErrors', ERR_TRK_WRONG_DATA_TYPE)
         = CountCode(errors, nErrors, ERR_TRK_WRONG_DATA_TYPE) + 1
    /\ tkrCall'.idExpected = TKR_EVT_DATA
         => /\ tkrCall'.rc = 54
            /\ tkrData'.triggerCount = 0
            /\ tkrData'.cmdCount = 0
            /\ tkrData'.trgPattern = 0
            /\ tkrData'.nTkrBoards = numTkrBrds
            /\ \A brd \in 0..(numTkrBrds - 1) :
                  /\ tkrData'.boardHits[brd].nBytes = 5
                  /\ Filled(brd) => IsWrongTypePlaceholder(tkrData', heap', brd)
            /\ OnlyHeaderRead

(* C30 as stated: every board of the placeholder event has the five-byte
   hit list. *)
C30_EveryBoardFilled ==
    [][WrongTypeRead => WrongTypeHandled(LAMBDA brd : TRUE)]_vars

(* C30: a call that expects a specific identifier and reads another logs
   one WrongDataType record when the log has room; if it expected event data
   it leaves the placeholder event, in which every board whose allocation
   succeeded has the hit list E7, board, 00, 01, 30, and returns 54 without
   reading a byte after the header; no other call returns 54. *)
C30_WrongTypePlaceholder ==
    [][/\ (WrongTypeRead /\ nErrors < MXERR)
            => WrongTypeHandled(LAMBDA brd : tkrData'.boardHits[brd].hitList # NULL)
       /\ (nCalls' = nCalls + 1
             /\ ~(WrongTypeRead /\ tkrCall'.idExpected = TKR_EVT_DATA))
            => tkrCall'.rc # 54]_vars

(* C30 witness: with two boards configured, a call that expected event data
   has read a housekeeping packet and returned 54; both boards have the
   placeholder hit list and the rest of the packet is unread *)
C30_Witness ==
    /\ nCalls >= 1
    /\ numTkrBrds = 2
    /\ tkrCall.idExpected = TKR_EVT_DATA
    /\ tkrCall.IDcode = TKR_HOUSE_DATA
    /\ tkrCall.rc = 54
    /\ tkrData.boardHits[0].hitList # NULL
    /\ tkrData.boardHits[1].hitList # NULL
    /\ IsWrongTypePlaceholder(tkrData, heap, 0)
    /\ IsWrongTypePlaceholder(tkrData, heap, 1)
    /\ Len(tkrRx) > 0


(***************************************************************************)
(* SpecBoards: event-data packets of two boards                            *)
(***************************************************************************)
MaxBoardCalls == 2

(* The hit lists a board sends, each led by its length byte: a good one from
   layer lyr, one with a wrong identifier, one of two bytes, one with an
   address byte above 8 and one that reports the other layer *)
GoodList(lyr) == <<4, 231, lyr, 1, 48>>

BoardLists(brd) ==
    {GoodList(brd), <<4, 0, brd, 1, 48>>, <<2, 231, brd>>,
     <<4, 231, 8 + brd + 1, 1, 48>>, <<4, 231, 1 - brd, 1, 48>>}

(* An event-data packet of two boards, one of which sends a good hit list *)
BoardPackets ==
    {<<5, TKR_EVT_DATA, 0, 1, 0, 2>> \o l0 \o l1 :
        l0 \in BoardLists(0), l1 \in {GoodList(1)}}
    \cup {<<5, TKR_EVT_DATA, 0, 1, 0, 2>> \o GoodList(0) \o l1 : l1 \in BoardLists(1)}

(* Two boards are configured *)
InitBoards == InitFrom([Boot EXCEPT !.numTkrBrds = 2])

(* The tracker sends a packet; an allocation of the call that reads it may
   fail *)
TkrSends ==
    /\ nCalls < MaxBoardCalls
    /\ tkrRx = <<>>
    /\ \E p \in BoardPackets : Commit([St EXCEPT !.tkrRx = p])

(* getTrackerData(TKR_EVT_DATA) on the packet *)
BoardsCall ==
    /\ tkrRx # <<>>
    /\ \E mfail \in {{}, {1}} :
          LET s == [St EXCEPT !.in_mfail = mfail, !.mcnt = 0]
              r == getTrackerData(s, TKR_EVT_DATA)
          IN  Commit([r.state EXCEPT
                         !.tkrRx = <<>>,
                         !.tkrCall = [idExpected |-> TKR_EVT_DATA, len |-> s.tkrRx[1],
                                      IDcode |-> s.tkrRx[2], rc |-> r.rc],
                         !.nCalls = s.nCalls + 1])

NextBoards == TkrSends \/ BoardsCall

SpecBoards == InitBoards /\ [][NextBoards]_vars

(* The hit list of board brd in packet pkt, led by its length byte, found by
   the declared lengths of the lists before it *)
RECURSIVE ListAt(_, _, _)
ListAt(pkt, at, brd) ==
    IF brd = 0 THEN SubSeq(pkt, at, at + pkt[at])
    ELSE ListAt(pkt, at + 1 + pkt[at], brd - 1)

(* The list violates one of the per-board checks *)
ListFaulty(l, brd) ==
    \/ l[1] < 4
    \/ l[2] # 231
    \/ l[3] > 8
    \/ l[3] % 8 # brd
    \/ l[1] > MAX_TKR_BOARD_BYTES

(* Board slot brd holds the bytes of list l *)
SlotHolds(data, mem, brd, l) ==
    /\ data.boardHits[brd].nBytes = l[1]
    /\ data.boardHits[brd].hitList # NULL
    /\ mem[data.boardHits[brd].hitList].bytes = [i \in 0..(l[1] - 1) |-> l[i + 2]]

(* C31: after an event-data packet has been read, the slot of every board
   whose hit list violates a per-board check holds the placeholder hit list,
   and the slot of every other board holds the hit list found at its
   position in the byte stream, unless its allocation failed. *)
C31_BoardFaultsIsolated ==
    [][(nCalls' = nCalls + 1)
         => \A brd \in 0..1 :
               \/ tkrData'.boardHits[brd].hitList = NULL
               \/ IF ListFaulty(ListAt(tkrRx, 7, brd), brd)
                  THEN IsPlaceholder(tkrData', heap', brd)
                  ELSE SlotHolds(tkrData', heap', brd, ListAt(tkrRx, 7, brd))]_vars


(***************************************************************************)
(* SpecUnknown: packets with an unknown identifier                         *)
(***************************************************************************)
MaxUnknownCalls == 2

(* Declared lengths around the limit of 15 *)
UnknownLengths == {0, 3, 15, 16, 20}

(* A packet with identifier 99, followed by as many bytes as it declares *)
UnknownPackets == {<<n, 99>> \o [i \in 1..n |-> i] : n \in UnknownLengths}

UnknownSends ==
    /\ nCalls < MaxUnknownCalls
    /\ \E p \in UnknownPackets : p # tkrRx /\ Commit([St EXCEPT !.tkrRx = p])

(* getTrackerData(id) on what the receive FIFO holds *)
UnknownCall ==
    /\ nCalls < MaxUnknownCalls
    /\ Len(tkrRx) >= 2
    /\ \E id \in {0, TKR_ECHO_DATA} :
          LET r == getTrackerData(St, id)
          IN  Commit([r.state EXCEPT
                         !.tkrCall = [idExpected |-> id, len |-> tkrRx[1],
                                      IDcode |-> tkrRx[2], rc |-> r.rc],
                         !.nCalls = nCalls + 1])

NextUnknown == UnknownSends \/ UnknownCall

SpecUnknown == InitGet /\ [][NextUnknown]_vars

(* C32: a call of getTrackerData that reads an identifier that is none of
   event data, housekeeping data and command echo logs exactly one
   BadIdentifier record and takes at most 15 bytes after the two header
   bytes from the tracker link. *)
C32_UnknownReadsAtMost15 ==
    [][(nCalls' = nCalls + 1
          /\ tkrRx[2] \notin {TKR_EVT_DATA, TKR_HOUSE_DATA, TKR_ECHO_DATA})
         => /\ CountCode(errors', nErrors', ERR_TKR_BAD_ID)
                 = CountCode(errors, nErrors, ERR_TKR_BAD_ID) + 1
            /\ Len(tkrRx) - Len(tkrRx') <= 2 + 15]_vars


(***************************************************************************)
(* SpecPass: the tracker pass-through command                              *)
(***************************************************************************)
MaxPassFrames == 5

MaxPassSends == 1

(* The host of this model sends a pass-through command and then its data
   bytes in order: the board address, the tracker command code (4: reset
   the logic, 15: set the number of boards), the number of bytes that
   follow, and that byte (a number of boards: 2, or one more than the
   tracker data has slots) *)
PassData(n) ==
    IF n = 1 THEN {0}
    ELSE IF n = 2 THEN {4, 15}
    ELSE IF n = 3 THEN {0, 1}
    ELSE {2, MAX_TKR_BOARDS + 1}

PassFrames(waiting, n) ==
    IF waiting THEN {Frame(CMD_TKR_PASS, 3), Frame(CMD_TKR_PASS, 4)}
    ELSE {Frame(b, n) : b \in PassData(n)}

(* The echo of the tracker for command code 4 *)
PassEcho == <<4, TKR_ECHO_DATA, 0, 1, 4>>

(* Bytes of the tracker arrive in the receive FIFO *)
PassTkrSends ==
    /\ nCalls < MaxPassSends
    /\ tkrRx = <<>>
    /\ Commit([St EXCEPT !.tkrRx = PassEcho, !.nCalls = nCalls + 1])

(* The command part of the main loop with a frame of the host; the transmit
   buffer of the tracker UART drains in time or does not *)
PassCmd ==
    /\ pc = "command"
    /\ nFrames < MaxPassFrames
    /\ nDataReady = 0
    /\ \E f \in PassFrames(awaitingCommand, dCnt + 1), ok \in BOOLEAN :
          Commit([MainCommand([St EXCEPT !.in_txOk = ok], f)
                     EXCEPT !.pc = "house", !.nFrames = nFrames + 1])

PassIdle ==
    /\ pc = "command"
    /\ Commit([MainCommand(St, <<>>) EXCEPT !.pc = "house"])

NextPass ==
    \/ PassTkrSends
    \/ PassCmd
    \/ PassIdle
    \/ MainEvent
    \/ MainOutputStep
    \/ MainTimeoutStep
    \/ MainHousekeepingStep

SpecPass == Init /\ [][NextPass]_vars

(* The step has logged a TxFailed record *)
TxFailedLogged ==
    CountCode(errors', nErrors', ERR_TX_FAILED)
        > CountCode(errors, nErrors, ERR_TX_FAILED)

(* C33: a step in which the transmit wait of a tracker command expires
   attempts no receive: it takes no byte from the tracker link and logs no
   ReadTimeout record. *)
C33_TxFailedAborts ==
    [][TxFailedLogged
         => /\ tkrRx' = tkrRx
            /\ CountCode(errors', nErrors', ERR_TKR_READ_TIMEOUT)
                 = CountCode(errors, nErrors, ERR_TKR_READ_TIMEOUT)]_vars


(***************************************************************************)
(* SpecRead: tkr_getByte, one turn of its wait loop at a time              *)
(***************************************************************************)
MaxReads == 2

MaxReadBytes == 1

(* The error log when the reads begin: empty, or full of the records of
   earlier reads that timed out *)
ReadLogs ==
    {[n |-> 0, log |-> Boot.errors],
     [n |-> MXERR,
      log |-> [i \in DOMAIN Boot.errors |->
                   [errorCode |-> ERR_TKR_READ_TIMEOUT,
                    value0 |-> TKR_READ_TIMEOUT + 1, value1 |-> 1]]]}

InitRead ==
    \E l \in ReadLogs : InitFrom([Boot EXCEPT !.nErrors = l.n, !.errors = l.log])

(* tkr_getByte(startTime, flag) is called: getTrackerData takes startTime
   once and passes it to every read of the packet, getASICdata takes it anew
   before each read *)
ReadCall ==
    /\ ~getByte.busy
    /\ nCalls < MaxReads
    /\ \E start \in {time(St), getByte.startTime} :
          Commit([St EXCEPT !.getByte = [busy |-> TRUE, startTime |-> start,
                                         flag |-> nCalls + 1, val |-> 0,
                                         expired |-> FALSE],
                            !.nCalls = nCalls + 1])

(* One turn of "while (!(RxStatus & NOTEMPTY))": the byte is there and is
   returned, or the time is up and 0 is returned, or the loop goes round *)
ReadPoll_Turn(s) ==
    IF Len(s.tkrRx) > 0
    THEN [s EXCEPT !.tkrRx = Tail(s.tkrRx),
                   !.getByte.busy = FALSE, !.getByte.val = Head(s.tkrRx)]
    ELSE IF ReadExpired(time(s), s.getByte.startTime)
    THEN [addError(s, ERR_TKR_READ_TIMEOUT,
                   ElapsedLow8(time(s), s.getByte.startTime), s.getByte.flag)
             EXCEPT !.getByte.busy = FALSE, !.getByte.val = 0,
                    !.getByte.expired = TRUE]
    ELSE s

ReadPoll ==
    /\ getByte.busy
    /\ Commit(ReadPoll_Turn(St))

(* The tick counter advances while the read waits *)
ReadTick ==
    /\ getByte.busy
    /\ ~ReadExpired(time(St), getByte.startTime)
    /\ Commit(AdvanceTime(St, 1))

(* A byte of the tracker arrives *)
ReadArrive ==
    /\ nFrames < MaxReadBytes
    /\ tkrRx = <<>>
    /\ \E b \in {0, 89} :
          Commit([St EXCEPT !.tkrRx = <<b>>, !.nFrames = nFrames + 1])

NextRead == ReadCall \/ ReadPoll \/ ReadTick \/ ReadArrive

(* The main loop keeps running, and the tick counter keeps advancing *)
SpecRead ==
    InitRead /\ [][NextRead]_vars /\ WF_vars(ReadPoll) /\ WF_vars(ReadTick)

ReadReturns == getByte.busy /\ ~getByte'.busy

ReadGotByte ==
    /\ getByte'.val = Head(tkrRx)
    /\ tkrRx' = Tail(tkrRx)
    /\ nErrors' = nErrors
    /\ errors' = errors

ReadLoggedOne ==
    /\ nErrors' = nErrors + 1
    /\ errors'[nErrors].errorCode = ERR_TKR_READ_TIMEOUT
    /\ errors'[nErrors].value1 = getByte.flag
    /\ \A i \in 0..(nErrors - 1) : errors'[i] = errors[i]

ReadTimedOut ==
    /\ time(St) - getByte.startTime > TKR_READ_TIMEOUT
    /\ getByte'.val = 0
    /\ tkrRx' = tkrRx

(* C34 as stated: a read that returns without a byte has waited more than
   TKR_READ_TIMEOUT ticks, logs exactly one ReadTimeout record and returns
   0; a read with a byte available returns it; every read returns. *)
C34_ExactlyOneRecord ==
    /\ [][ReadReturns
            => IF tkrRx # <<>> THEN ReadGotByte
               ELSE ReadTimedOut /\ ReadLoggedOne]_vars
    /\ (getByte.busy ~> ~getByte.busy)

(* C34: a read returns the received byte if one is available; otherwise it
   returns 0x00 once more than TKR_READ_TIMEOUT ticks have passed since the
   start time, logging one ReadTimeout record if the error log has room
   and none if the log is full; as long as the tick counter advances, every
   read returns. *)
C34_ReadReturns ==
    /\ [][ReadReturns
            => IF tkrRx # <<>> THEN ReadGotByte
               ELSE /\ ReadTimedOut
                    /\ IF nErrors < MXERR THEN ReadLoggedOne
                       ELSE nErrors' = nErrors /\ errors' = errors]_vars
    /\ (getByte.busy ~> ~getByte.busy)

C34_Witness ==
    /\ ~getByte.busy
    /\ getByte.expired
    /\ nCalls = 2
    /\ nErrors = 1
    /\ errors[0].errorCode = ERR_TKR_READ_TIMEOUT


(***************************************************************************)
(* SpecPoll: the status poll of the tracker before an event is read        *)
(***************************************************************************)
MaxPollGO == 3

(* The tracker's answers to the status poll: "not ready" (4E) and a status
   byte that is neither 59 nor 4E *)
PollBusy == <<8, TKR_HOUSE_DATA, 2, 0, 0, 0, 87, 78, 15>>

PollOther == <<8, TKR_HOUSE_DATA, 2, 0, 0, 0, 87, 0, 15>>

Times(packet, n) ==
    [i \in 1..(n * Len(packet)) |-> packet[((i - 1) % Len(packet)) + 1]]

(* What the tracker sends after a trigger: ready at once, ready at the
   fourth or tenth poll, never ready (eleven answers), other status bytes,
   two answers and then silence, nothing at all *)
PollAnswers ==
    {PollReady \o EventOf(BoardOf(0)),
     Times(PollBusy, 3) \o PollReady \o EventOf(BoardOf(0)),
     Times(PollBusy, 9) \o PollReady \o EventOf(BoardOf(0)),
     Times(PollBusy, 11),
     Times(PollOther, 10),
     Times(PollBusy, 2),
     <<>>}

PollTkrSends ==
    /\ pc = "event"
    /\ triggered
    /\ tkrRx = <<>>
    /\ nCalls < nGO
    /\ \E rx \in PollAnswers \ {<<>>} :
          Commit([St EXCEPT !.tkrRx = rx, !.nCalls = nGO])

PollGO == GOStep(MaxPollGO)

(* The event section; an allocation of the event may fail *)
PollEvent ==
    MainEventStep({TrackerAnswers(<<>>, {}), TrackerAnswers(<<>>, {1})})

NextPoll == PollGO \/ PollTkrSends \/ PollEvent \/ MainOutputStep \/ MainIdleStep

SpecPoll == InitTkr /\ [][NextPoll]_vars

(* The status bytes of the housekeeping packets at the head of rx *)
RECURSIVE Statuses(_)
Statuses(rx) ==
    IF Len(rx) >= 9 /\ rx[2] = TKR_HOUSE_DATA
    THEN <<rx[8]>> \o Statuses(SubSeq(rx, 10, Len(rx)))
    ELSE <<>>

(* The number of status requests at the head of the bytes sent *)
RECURSIVE PollCount(_)
PollCount(sent) ==
    IF Len(sent) >= 3 /\ SubSeq(sent, 1, 3) = <<0, 87, 0>>
    THEN 1 + PollCount(SubSeq(sent, 4, Len(sent)))
    ELSE 0

(* This step assembles an event with tracker read-out *)
PollStep ==
    /\ pc = "event"
    /\ pc' = "output"
    /\ triggered /\ ~cmdDone /\ awaitingCommand /\ readTracker

SentInStep == SubSeq(tkrTx', Len(tkrTx) + 1, Len(tkrTx'))

ReadEventSent ==
    LET after == SubSeq(SentInStep, 3 * PollCount(SentInStep) + 1, Len(SentInStep))
    IN  Len(after) >= 4 /\ SubSeq(after, 1, 4) = <<0, 1, 1, 0>>

(* No answer among the first ten is "ready" *)
NeverReady ==
    \A i \in 1..10 : i \in DOMAIN Statuses(tkrRx) => Statuses(tkrRx)[i] # 89

(* The last record of the log is the TrackerBadStatus of the exhausted poll *)
BadStatusLogged ==
    /\ nErrors' > nErrors
    /\ errors'[nErrors' - 1].errorCode = ERR_TKR_BAD_STATUS
    /\ errors'[nErrors' - 1].value1 = 11

(* The event record built has the configured number of boards, each with
   its address, the length 5 and the placeholder hit list E7, board, 00,
   tag, 30 (tag 06, or 07 where the allocation failed), and the trailer *)
PlaceholderBoard(at, brd) ==
    /\ dataOut'[at] = brd
    /\ dataOut'[at + 1] = 5
    /\ dataOut'[at + 2] = 231
    /\ dataOut'[at + 3] = brd
    /\ dataOut'[at + 4] = 0
    /\ dataOut'[at + 5] \in {6, 7}
    /\ dataOut'[at + 6] = 48

PlaceholderEvent ==
    /\ eventDataReady'
    /\ dataOut'[51] = numTkrBrds
    /\ \A brd \in 0..(numTkrBrds - 1) : PlaceholderBoard(52 + 7 * brd, brd)
    /\ nDataReady' = 52 + 7 * numTkrBrds + 4

PollBounded ==
    /\ PollCount(SentInStep) <= 10
    /\ ReadEventSent
         => /\ PollCount(SentInStep) \in DOMAIN Statuses(tkrRx)
            /\ Statuses(tkrRx)[PollCount(SentInStep)] = 89
    /\ NeverReady => PollCount(SentInStep) = 10 /\ ~ReadEventSent

(* C35 as stated: an event assembly sends at most 10 status requests and the
   event-read command only after an answer "ready"; when no answer is
   "ready", a TrackerBadStatus record is logged and the event has N
   placeholder boards. *)
C35_BadStatusAndPlaceholders ==
    [][PollStep
         => /\ PollBounded
            /\ NeverReady => BadStatusLogged /\ PlaceholderEvent]_vars

(* C35: an event assembly sends at most 10 status requests and the
   event-read command only after an answer "ready"; when no answer is
   "ready", a TrackerBadStatus record is logged if the log has room, and the
   event record has N placeholder boards. *)
C35_PollBounded ==
    [][PollStep
         => /\ PollBounded
            /\ NeverReady
                 => /\ nErrors' < MXERR => BadStatusLogged
                    /\ PlaceholderEvent]_vars

(* C35 witness: the ten polls of the first event were answered "not ready"; the log ends with the
   TrackerBadStatus record and the event waits with its placeholder board *)
C35_Witness ==
    /\ pc = "output"
    /\ eventDataReady
    /\ nGO = 1
    /\ PollCount(SubSeq(tkrTx, 4, Len(tkrTx))) = 10
    /\ tkrRx = PollBusy
    /\ nErrors > 0
    /\ errors[nErrors - 1].errorCode = ERR_TKR_BAD_STATUS
    /\ errors[nErrors - 1].value1 = 11
    /\ dataOut[51] = 1
    /\ dataOut[57] = 6


(***************************************************************************)
(* Stopping the acquisition (specification Spec)                           *)
(***************************************************************************)
(* The most recent command dispatched went to its handler and was end-run or
   disable-trigger: no enable-trigger or start-run command has been executed
   since *)
Stopped ==
    /\ dispatch.ran
    /\ \/ dispatch.code = CMD_END_RUN
       \/ dispatch.code = CMD_TRIGGER /\ cmdData[0] = 0

(* The step hands an event record to the transport *)
EventEmitted ==
    /\ Len(usbOut') = Len(usbOut) + 1
    /\ IsEvent(usbOut'[Len(usbOut')])

(* C36: once an end-run or disable-trigger command has been executed, the
   trigger-enable bit is clear and no event record is emitted until an
   enable-trigger or start-run command is executed. *)
C36_StoppedStaysStopped ==
    /\ [](Stopped => ~isTriggerEnabled(St))
    /\ [][Stopped => ~EventEmitted]_vars


(***************************************************************************)
(* SpecFifo: the ring of frames between isrUART and the main loop          *)
(***************************************************************************)
MaxFifoFrames == 34

(* Frame number k of the host: a frame for the board at another address,
   which the parser counts and drops *)
FifoFrame(k) ==
    LET c == FrameCopy(k, AddressByteOf(eventPSOCaddress - 1, 0))
    IN  c \o c \o c \o <<CH_CR, CH_LF>>

(* The command UART has received a byte and isrUART takes it: byte number
   nUart + 1 of the stream of frames.  With the ring full the loop of the
   handler takes no byte, and the byte waits in the UART. *)
FifoByte ==
    /\ nUart < MaxFifoFrames * CMD_LENGTH
    /\ cmdWritePtr # cmdReadPtr
    /\ Commit([isrUART_Byte(St, FifoFrame((nUart \div CMD_LENGTH) + 1)
                                    [(nUart % CMD_LENGTH) + 1])
                  EXCEPT !.nUart = nUart + 1])

(* One turn of the main loop, which takes a frame from the ring if one is
   there *)
FifoLoop ==
    /\ pc = "event"
    /\ Commit([Iteration(St, <<>>) EXCEPT
                  !.nFrames = IF nDataReady = 0 /\ cmdReadPtr < MX_CMDS
                              THEN nFrames + 1 ELSE nFrames])

NextFifo == FifoByte \/ FifoLoop

SpecFifo == Init /\ [][NextFifo]_vars

(* Frames isrUART has received to the last byte; frames handed to the
   parser *)
FifoComplete == nUart \div CMD_LENGTH

FifoRead == nFrames' = nFrames + 1

(* C37: the ring is a FIFO with exactly-once delivery: the k-th frame the
   main loop hands to the parser is the k-th frame received, every frame
   received in full and not yet handed over is there to be read, at most
   MX_CMDS are pending, the interrupt stores no byte at an offset of
   CMD_LENGTH or more, and the slot the main loop reads is complete and not
   the one the interrupt is filling. *)
C37_RingIsFifo ==
    /\ [][FifoRead
            => /\ rxFrame' = FifoFrame(nFrames + 1)
               /\ nFrames < FifoComplete
               /\ cmd_buffer[cmdReadPtr].nBytes = CMD_LENGTH]_vars
    /\ [](/\ nFrames <= FifoComplete
          /\ FifoComplete - nFrames <= MX_CMDS
          /\ (nFrames < FifoComplete) <=> (cmdReadPtr < MX_CMDS)
          /\ cmdWritePtr # cmdReadPtr
               => cmd_buffer[cmdWritePtr].nBytes < CMD_LENGTH
          /\ \A i \in 0..(MX_CMDS - 1) : cmd_buffer[i].nBytes <= CMD_LENGTH)

(* C37 witness: the ring has been full (the overflow is in the log), the
   write pointer has gone round, and frame MX_CMDS + 1 has been handed to the
   parser while frame MX_CMDS + 2 is being received *)
C37_Witness ==
    /\ nFrames = MX_CMDS + 1
    /\ rxFrame = FifoFrame(MX_CMDS + 1)
    /\ nErrors >= 1
    /\ errors[0].errorCode = ERR_CMD_BUF_OVERFLOW
    /\ cmd_buffer[cmdWritePtr].nBytes = 3


(***************************************************************************)
(* The command echo of event packets (specification SpecTkr)               *)
(***************************************************************************)
(* C38: every output packet that carries event data (command-echo byte DD)
   has the echoed-data length 0 and holds no command data bytes: behind the
   6-byte header the event record begins. *)
C38_EventPacketNoEcho ==
    \A i \in DOMAIN usbOut :
        usbOut[i][5] = 221
            => /\ usbOut[i][6] = 0
               /\ SubSeq(usbOut[i], 7, 10) = <<90, 69, 82, 79>>


(* C39: the configured number of tracker boards never exceeds
   MAX_TKR_BOARDS, the number of hit-list slots, so that every slot index
   brd < numTkrBrds is in 0..7. *)
C39_BoardCountBounded ==
    /\ numTkrBrds <= MAX_TKR_BOARDS
    /\ tkrData.nTkrBoards <= MAX_TKR_BOARDS


(***************************************************************************)
(* SpecCount: the GO counters and the run summary                          *)
(***************************************************************************)
MaxCountGO == 256

MaxCountFrames == 1

(* The host has started a run without tracker read-out *)
InitCount == InitFrom(AfterCommand(Boot, CMD_START_RUN, <<0, 1, 0>>))

(* GO signals arrive, before anything has been sent, while the main loop is
   in its command section or in the end-run handler: the first is accepted,
   the others are only counted *)
CountGO ==
    /\ pc \in {"command", "endRun1", "endRun2", "endRun3"}
    /\ usbOut = <<>>
    /\ GOStep(MaxCountGO)

(* case '\x44' up to and including "dataOut[0] = byte32(cntGO1, 0)": cntGO1
   is not volatile and is read for each of its four bytes; the bytes 1 to 3
   are read in the steps that follow.  cntGO is read with the trigger
   disabled, when no interrupt changes it. *)
CountEndRun ==
    /\ pc = "command"
    /\ nFrames < MaxCountFrames
    /\ awaitingCommand
    /\ nDataReady = 0
    /\ Commit([MainCommand(St, Frame(CMD_END_RUN, 0))
                  EXCEPT !.pc = "endRun1", !.nFrames = nFrames + 1])

(* "dataOut[k] = byte32(cntGO1, k)" *)
EndRun_Read(s, k) == [s EXCEPT !.dataOut[k] = byte32(s.cntGO1, k)]

CountRead ==
    \E k \in 1..3 :
        /\ pc = <<"endRun1", "endRun2", "endRun3">>[k]
        /\ Commit([EndRun_Read(St, k) EXCEPT
                      !.pc = <<"endRun2", "endRun3", "house">>[k]])

CountIdle ==
    /\ pc = "command"
    /\ Commit([MainCommand(St, <<>>) EXCEPT !.pc = "house"])

NextCount ==
    \/ CountGO
    \/ CountEndRun
    \/ CountRead
    \/ CountIdle
    \/ MainEvent
    \/ MainOutputStep
    \/ MainTimeoutStep
    \/ MainHousekeepingStep

SpecCount == InitCount /\ [][NextCount]_vars

(* A run summary: the response to the end-run command, the raw GO count and
   then the accepted-event count, four bytes each *)
IsSummary(pkt) == pkt[5] = CMD_END_RUN /\ pkt[4] = pkt[6] + 8

Word32(pkt, at) ==
    ((pkt[at + 1] * 256 + pkt[at + 2]) * 256 + pkt[at + 3]) * 256 + pkt[at + 4]

(* The raw GO count of an event record (payload bytes 14..17) *)
EventRawOf(pkt) == Word32(pkt, PayloadAt(pkt) + 14)

(* C40: the accepted-event count is at most the raw GO count in every
   state, and every event record and every run summary sent reports an
   accepted-event count no greater than its raw GO count. *)
C40_AcceptedAtMostRaw ==
    /\ cntGO <= cntGO1
    /\ \A i \in DOMAIN usbOut :
          /\ IsSummary(usbOut[i])
               => Word32(usbOut[i], PayloadAt(usbOut[i]) + 4)
                      <= Word32(usbOut[i], PayloadAt(usbOut[i]))
          /\ IsEvent(usbOut[i])
               => EventCountOf(usbOut[i]) <= EventRawOf(usbOut[i])

====
